---- MODULE Spec2Model ----
(***************************************************************************)
(* bucketbench: the concurrent benchmark execution engine                  *)
(* (benches.CustomBench, benches.OverheadBench), the driver factory and    *)
(* the lifecycle operations of the Docker, containerd and CRI drivers.     *)
(***************************************************************************)
EXTENDS Integers, Sequences, FiniteSets, TLC

(* ----------------------------- bounds ---------------------------------- *)
\* largest thread count of a run (runBenchmark sweeps 1..Threads)
MaxThreads == 2
\* largest iteration count of a run
MaxIter == 2
\* largest number of driver operations whose backend call fails in a run
MaxFaults == 1
\* largest thread / iteration index drawn when only names are generated
MaxIndex == 12
\* largest number of ticks the ticker delivers in a run
MaxTicks == 2
\* largest number of records handed to the aggregator
MaxRecords == 2
\* the calls of Run on one bench after the first one
MaxRuns == 1
\* number of processes in the daemon's process tree
MaxProcs == 3
\* largest average handed to the overhead comparison
MaxAvg == 20

(* --------------------------- value spaces ------------------------------ *)
Nil == "nil"
ThreadIds == 0 .. (MaxThreads - 1)
\* driverConfig.Type strings of the benchmark YAML ("CRI" has its own
\* specification, SpecCRI)
TypeStrings == {"Docker", "Containerd", "Podman"}
\* benchmark.Commands of the benchmark YAML
CommandLists ==
    { <<"run", "pause", "unpause", "stop", "remove">>,
      <<"Start", "bogus", "kill">>,
      <<"resume", "Erase", "delete">> }
\* driver operations a backend failure can hit
FaultOps == {"Create", "Run", "Stop", "Remove", "Pause", "Unpause"}
FaultPatterns == {s \in SUBSET FaultOps : Cardinality(s) <= MaxFaults}
EmptyMap == [k \in {} |-> 0]

VARIABLES
    \* inputs of one run: YAML driver type, command list, threads, iterations,
    \* and the driver operations whose backend call fails
    benchType, cfgType, commands, threads, iterations, failOps,
    \* CustomBench fields and the position of the goroutine calling Init/Run
    pcMain, driver, state, stats, runErr, wg,
    \* the outcome of the final driver.Clean of Run: "none", "ok" or "failed"
    lastClean,
    \* runThread goroutines: position, loop index, command index, container
    \* handle, per-iteration maps, private channel, closed flag
    pc, iter, cmdIdx, ctr, errors, durations, chan, closed,
    \* what the driver observed in the current iteration of each thread
    calls,
    \* a goroutine panicked: the process is gone
    crashed,
    \* CRI driver: Metadata.Name of the objects that pconfigGlobal and
    \* cconfigGlobal point to, and the names each thread's last request carried
    pconfigName, cconfigName, sent,
    \* OverheadBench.Run: the ticker (running, a tick buffered in ticker.C, ticks
    \* fired so far), the sampling goroutine and its sample list
    tickerOn, tickPending, clock, pcSampler, metrics,
    \* the (memErr, cpuErr) outcome of every query the sampling goroutine made
    queries,
    \* name generation alone: two generated (thread, iteration, name) entries
    genA, genB,
    \* driver.Close has been called on the bench's driver
    driverClosed,
    \* the calls of Run on the bench after the first one
    runCalls,
    \* containerd stopTask: the driver operation that calls it, whether the wait
    \* is made in a goroutine (driver/containerd.go) or inline, the status of
    \* the container's task before the call and now, whether the container is
    \* still in the metadata, the position of stopTask and of the waiter, whether
    \* statusC holds the exit status, the calls made on the task in order, and
    \* the results of stopTask and of the operation
    stopCaller, waitInGoroutine, taskBefore, taskStatus, ctrPresent, pcStop,
    pcWaiter, statusC, taskLog, stopErr, callErr,
    \* the aggregator of cmd/root.go: the statistics handed to it and the
    \* outcomes of parseStats and parseMetrics
    statistics, cmdTimings, metricsResults,
    \* the process sampler of utils: the daemon's process tree (parent, name and
    \* fate of each process) and the outcomes of Proc.Mem and Proc.CPU
    procParent, procName, procFate, memResult, cpuResult,
    \* the overhead comparison of outputRunDetails: the baseline average, the
    \* compared average, and the printed memory percent and CPU multiplier
    avgBefore, avgAfter, overhead,
    \* driver.Clean alone: the driver type, the containers of its backend
    \* (name -> state) before and after, and what Clean returned
    cleanDriver, backendBefore, backend, cleanResult,
    \* the merge of OverheadBench.Run alone: the wrapped run's statistics, the
    \* samples, and the sorted sequence
    mergeStats, mergeMetrics, merged,
    \* runBenchmark: driverConfig.Threads, whether the current bench passed
    \* Validate, the stats slice filled run by run, and what was returned
    sweepMax, validated, sweepStats, sweepResult,
    \* outputRunDetails: the command rows printed for each thread-count step
    detailRows

cfgVars == <<benchType, cfgType, commands, threads, iterations, failOps>>
benchVars == <<pcMain, driver, state, stats, runErr, wg, lastClean>>
threadVars == <<pc, iter, cmdIdx, ctr, errors, durations, chan, closed, calls>>
criVars == <<pconfigName, cconfigName, sent>>
overheadVars == <<tickerOn, tickPending, clock, pcSampler, metrics, queries>>
genVars == <<genA, genB>>
aggVars == <<statistics, cmdTimings, metricsResults>>
procVars == <<procParent, procName, procFate, memResult, cpuResult>>
deltaVars == <<avgBefore, avgAfter, overhead>>
cleanVars == <<cleanDriver, backendBefore, backend, cleanResult>>
mergeVars == <<mergeStats, mergeMetrics, merged>>
stopVars == <<stopCaller, waitInGoroutine, taskBefore, taskStatus, ctrPresent, pcStop,
              pcWaiter, statusC, taskLog, stopErr, callErr>>
sweepVars == <<sweepMax, validated, sweepStats, sweepResult, detailRows>>
extVars == <<driverClosed, runCalls, stopVars, aggVars, procVars, deltaVars, cleanVars, mergeVars, sweepVars>>
vars == <<cfgVars, benchVars, threadVars, crashed, criVars, overheadVars, genVars, extVars>>

(* ------------------------- driver factory ------------------------------ *)
\* driver.StringToType: every unlisted string becomes Null
StringToType(dtype) ==
    CASE dtype = "DockerCLI" -> "DockerCLI"
      [] dtype = "Docker" -> "Docker"
      [] dtype = "Containerd" -> "Containerd"
      [] dtype = "Ctr" -> "Ctr"
      [] dtype = "Runc" -> "Runc"
      [] dtype = "CRI" -> "CRI"
      [] OTHER -> "Null"

\* driver.New: the constructor of the type, or (nil, nil) for Null
New(dtype, ctorFails) ==
    CASE dtype = "Null" -> [drv |-> Nil, err |-> FALSE]
      [] dtype \in {"Runc", "DockerCLI", "Docker", "Containerd", "Ctr", "CRI"} ->
            IF ctorFails THEN [drv |-> Nil, err |-> TRUE]
                         ELSE [drv |-> dtype, err |-> FALSE]
      [] OTHER -> [drv |-> Nil, err |-> TRUE]

(* ------------------------- container names ----------------------------- *)
\* the format string without the separator between the two indices
FmtNameNoSep(threadNum, i) == "bb-ctr-" \o ToString(threadNum) \o ToString(i)

\* fmt.Sprintf("bb-ctr-%d-%d", threadNum, i)
FmtName(threadNum, i) == "bb-ctr-" \o ToString(threadNum) \o "-" \o ToString(i)

\* defaultPodNamePrefix + name
PodName(name) == "pod" \o name

(* ------------------------- command dispatch ---------------------------- *)
\* strings.ToLower on the command tokens of CommandLists
ToLower(s) ==
    CASE s = "Start" -> "start"
      [] s = "Erase" -> "erase"
      [] OTHER -> s

\* the switch without strings.ToLower
DispatchCaseSensitive(cmd) ==
    CASE cmd \in {"run", "start"} -> "Run"
      [] cmd \in {"stop", "kill"} -> "Stop"
      [] cmd \in {"remove", "erase", "delete"} -> "Remove"
      [] cmd = "pause" -> "Pause"
      [] cmd = "unpause" \/ cmd = "resume" -> "Unpause"
      [] OTHER -> "none"

\* the switch with a default case that stops the container
DispatchDefaultStop(cmd) ==
    LET c == ToLower(cmd) IN
    CASE c \in {"run", "start"} -> "Run"
      [] c \in {"stop", "kill"} -> "Stop"
      [] c \in {"remove", "erase", "delete"} -> "Remove"
      [] c = "pause" -> "Pause"
      [] c = "unpause" \/ c = "resume" -> "Unpause"
      [] OTHER -> "Stop"

\* the switch of runThread: the driver operation of a token, "none" if unrecognized
Dispatch(cmd) ==
    LET c == ToLower(cmd) IN
    CASE c \in {"run", "start"} -> "Run"
      [] c \in {"stop", "kill"} -> "Stop"
      [] c \in {"remove", "erase", "delete"} -> "Remove"
      [] c = "pause" -> "Pause"
      [] c = "unpause" \/ c = "resume" -> "Unpause"
      [] OTHER -> "none"

(* ------------------------- driver operations --------------------------- *)
\* (output, elapsed, error) of a lifecycle method, or the panic of a nil handle
OpOk == [err |-> FALSE, elapsed |-> 1, panic |-> FALSE]
OpErr == [err |-> TRUE, elapsed |-> 0, panic |-> FALSE]
OpSwallowed == [err |-> FALSE, elapsed |-> 0, panic |-> FALSE]
OpPanic == [err |-> FALSE, elapsed |-> 0, panic |-> TRUE]

\* DockerDriver.Run/Stop/Remove/Pause/Unpause: every method reads ctr.Name()
\* or ctr.Image() first; Pause returns a nil error when ContainerPause fails
DockerDriverOp(op, h, fail) ==
    IF h.isNil THEN OpPanic
    ELSE IF ~fail THEN OpOk
    ELSE IF op = "Pause" THEN OpSwallowed
    ELSE OpErr

\* ContainerdDriver.Run/Stop/Remove/Pause/Unpause: every method reads
\* ctr.Image() or ctr.Name() first and returns the client's error
ContainerdDriverOp(op, h, fail) ==
    IF h.isNil THEN OpPanic
    ELSE IF fail THEN OpErr
    ELSE OpOk

\* CRIDriver.Run/Stop/Remove/Pause/Unpause: Pause and Unpause do nothing;
\* Stop and Remove return a nil error on every failing runtime call
CRIDriverOp(op, h, fail) ==
    IF op \in {"Pause", "Unpause"} THEN OpSwallowed
    ELSE IF h.isNil THEN OpPanic
    ELSE IF ~fail THEN OpOk
    ELSE IF op \in {"Stop", "Remove"} THEN OpSwallowed
    ELSE OpErr

\* dynamic dispatch on the Driver interface value held by the bench
DriverOp(drv, op, h, fail) ==
    CASE drv = "Docker" -> DockerDriverOp(op, h, fail)
      [] drv = "Containerd" -> ContainerdDriverOp(op, h, fail)
      [] drv = "CRI" -> CRIDriverOp(op, h, fail)

\* the method reaches the backend: not for the CRI no-ops, not on a nil handle
CallsBackend(drv, op, h) ==
    /\ ~h.isNil
    /\ ~(drv = "CRI" /\ op \in {"Pause", "Unpause"})

(* ----------------------------- records --------------------------------- *)
\* the Daemon field: nil in an operational record
NoDaemon == [present |-> FALSE, Mem |-> 0, CPU |-> 0]

\* benches.RunStatistics of one iteration
RunStatistics(d, e) ==
    [Durations |-> d, Errors |-> e, Timestamp |-> 0, Daemon |-> NoDaemon]

\* errors[cmd]++ on a Go map: a missing key counts from zero
MapInc(m, k) ==
    [x \in DOMAIN m \cup {k} |-> IF x = k
                                 THEN (IF k \in DOMAIN m THEN m[k] + 1 ELSE 1)
                                 ELSE m[x]]

\* durations[cmd] = v on a Go map
MapSet(m, k, v) == [x \in DOMAIN m \cup {k} |-> IF x = k THEN v ELSE m[x]]

\* what the driver saw of one call: the operation, the command token it served,
\* whether its backend call failed, and whether the method returned an error
Call(op, tok, failed, err) == [op |-> op, tok |-> tok, failed |-> failed, err |-> err]

\* the container handle a successful Create returns, and the nil Container
Handle(name, podID) == [isNil |-> FALSE, name |-> name, podID |-> podID]
NilHandle == [isNil |-> TRUE, name |-> "", podID |-> ""]

\* the names one CRI request carried; NoRequest before any
Request(pod, c) == [made |-> TRUE, pod |-> pod, ctr |-> c]
NoRequest == [made |-> FALSE, pod |-> "", ctr |-> ""]

(* --------------------------- initial states ---------------------------- *)
\* benches.New: a bench in state Created, no driver yet; nothing has run
BenchCreated ==
    /\ pcMain = "new"
    /\ driver = Nil
    /\ state = "Created"
    /\ stats = <<>>
    /\ runErr = Nil
    /\ wg = 0
    /\ lastClean = "none"
    /\ pc = [t \in ThreadIds |-> "idle"]
    /\ iter = [t \in ThreadIds |-> 0]
    /\ cmdIdx = [t \in ThreadIds |-> 1]
    /\ ctr = [t \in ThreadIds |-> NilHandle]
    /\ errors = [t \in ThreadIds |-> EmptyMap]
    /\ durations = [t \in ThreadIds |-> EmptyMap]
    /\ chan = [t \in ThreadIds |-> <<>>]
    /\ closed = [t \in ThreadIds |-> FALSE]
    /\ calls = [t \in ThreadIds |-> <<>>]
    /\ crashed = FALSE
    /\ pconfigName = ""
    /\ cconfigName = ""
    /\ sent = [t \in ThreadIds |-> NoRequest]
    /\ tickerOn = FALSE
    /\ tickPending = FALSE
    /\ clock = 0
    /\ pcSampler = "off"
    /\ metrics = <<>>
    /\ queries = <<>>
    /\ driverClosed = FALSE
    /\ runCalls = 0

NoGen == genA = <<>> /\ genB = <<>>

\* nothing has been handed to the aggregator
NoAgg ==
    /\ statistics = <<>>
    /\ cmdTimings = [done |-> FALSE, panic |-> FALSE, result |-> EmptyMap]
    /\ metricsResults = [done |-> FALSE]

\* no process tree is being sampled
NoProc ==
    /\ procParent = <<>>
    /\ procName = <<>>
    /\ procFate = <<>>
    /\ memResult = [done |-> FALSE, total |-> 0, err |-> FALSE]
    /\ cpuResult = [done |-> FALSE, total |-> 0, err |-> FALSE]

\* no overhead comparison has been printed
NoDelta ==
    /\ avgBefore = 0
    /\ avgAfter = 0
    /\ overhead = [done |-> FALSE]

\* no backend is being cleaned
NoClean ==
    /\ cleanDriver = "Null"
    /\ backendBefore = <<>>
    /\ backend = <<>>
    /\ cleanResult = [done |-> FALSE, err |-> FALSE]

\* nothing is being merged
NoMerge ==
    /\ mergeStats = <<>>
    /\ mergeMetrics = <<>>
    /\ merged = [done |-> FALSE, out |-> <<>>]

\* no sweep of runBenchmark is in progress
NoSweep ==
    /\ sweepMax = 0
    /\ validated = FALSE
    /\ sweepStats = <<>>
    /\ sweepResult = [done |-> FALSE, err |-> FALSE, statistics |-> <<>>]
    /\ detailRows = [done |-> FALSE, rows |-> <<>>]

\* no containerd task is being stopped
NoStop ==
    /\ stopCaller = "none"
    /\ waitInGoroutine = FALSE
    /\ taskBefore = "none"
    /\ taskStatus = "none"
    /\ ctrPresent = FALSE
    /\ pcStop = "idle"
    /\ pcWaiter = "off"
    /\ statusC = FALSE
    /\ taskLog = <<>>
    /\ stopErr = "pending"
    /\ callErr = "pending"

NoExt == NoAgg /\ NoProc /\ NoDelta /\ NoClean /\ NoMerge /\ NoSweep /\ NoStop

\* a custom benchmark on any driver type string
Init ==
    /\ benchType = "Custom"
    /\ cfgType \in TypeStrings
    /\ commands \in CommandLists
    /\ threads \in 1 .. MaxThreads
    /\ iterations \in 0 .. MaxIter
    /\ failOps \in FaultPatterns
    /\ BenchCreated
    /\ NoGen
    /\ NoExt

\* a custom benchmark on the CRI driver: one iteration per thread, and only
\* the runtime's stop call may fail
InitCRI ==
    /\ benchType = "Custom"
    /\ cfgType = "CRI"
    /\ commands \in CommandLists
    /\ threads \in 1 .. MaxThreads
    /\ iterations = 1
    /\ failOps \in {{}, {"Stop"}}
    /\ BenchCreated
    /\ NoGen
    /\ NoExt

\* a custom benchmark whose goroutines are all scheduled: the Docker or the
\* containerd driver, with no failure, a failing stop or a failing create
InitFair ==
    /\ benchType = "Custom"
    /\ cfgType \in {"Docker", "Containerd"}
    /\ commands \in CommandLists
    /\ threads \in 1 .. MaxThreads
    /\ iterations \in 0 .. MaxIter
    /\ failOps \in {{}, {"Stop"}, {"Create"}}
    /\ BenchCreated
    /\ NoGen
    /\ NoExt

\* the records of iterations whose run took two or three time units
MeasuredRecords ==
    {RunStatistics([Start |-> e, kill |-> 1], EmptyMap) : e \in {2, 3}}

\* a run in progress on the Docker driver: every worker is at the top of its
\* loop, having sent the records of the iterations it has finished
InitOrder ==
    /\ benchType = "Custom"
    /\ cfgType = "Docker"
    /\ commands = <<"Start", "bogus", "kill">>
    /\ threads \in 1 .. MaxThreads
    /\ iterations \in 1 .. MaxIter
    /\ failOps = {}
    /\ pcMain = "wait"
    /\ driver = "Docker"
    /\ state = "Running"
    /\ stats = <<>>
    /\ runErr = Nil
    /\ wg = threads
    /\ lastClean = "none"
    /\ pc = [t \in ThreadIds |-> IF t < threads THEN "loop" ELSE "idle"]
    /\ iter \in [ThreadIds -> 0 .. iterations]
    /\ \A t \in ThreadIds : t >= threads => iter[t] = 0
    /\ cmdIdx = [t \in ThreadIds |-> 1]
    /\ ctr = [t \in ThreadIds |-> NilHandle]
    /\ errors = [t \in ThreadIds |-> EmptyMap]
    /\ durations = [t \in ThreadIds |-> EmptyMap]
    /\ chan \in [ThreadIds -> UNION {[1 .. n -> MeasuredRecords] : n \in 0 .. MaxIter}]
    /\ \A t \in ThreadIds : Len(chan[t]) = iter[t]
    /\ closed = [t \in ThreadIds |-> FALSE]
    /\ calls = [t \in ThreadIds |-> <<>>]
    /\ crashed = FALSE
    /\ pconfigName = ""
    /\ cconfigName = ""
    /\ sent = [t \in ThreadIds |-> NoRequest]
    /\ tickerOn = FALSE
    /\ tickPending = FALSE
    /\ clock = 0
    /\ pcSampler = "off"
    /\ metrics = <<>>
    /\ queries = <<>>
    /\ driverClosed = FALSE
    /\ runCalls = 0
    /\ NoGen
    /\ NoExt

\* an overhead benchmark: one worker thread beside the sampling goroutine
InitOverhead ==
    /\ benchType = "Overhead"
    /\ cfgType \in {"Docker", "Containerd", "CRI"}
    /\ commands \in CommandLists
    /\ threads = 1
    /\ iterations \in 1 .. MaxIter
    /\ failOps \in {{}, {"Stop"}}
    /\ BenchCreated
    /\ NoGen
    /\ NoExt

\* no bench runs: only container names are generated
InitNames ==
    /\ benchType = "Custom"
    /\ cfgType = "Docker"
    /\ commands = <<"run", "pause", "unpause", "stop", "remove">>
    /\ threads = 1
    /\ iterations = 0
    /\ failOps = {}
    /\ BenchCreated
    /\ NoGen
    /\ NoExt

(* --------------------------- CustomBench.Init -------------------------- *)
\* driver.New, driver.Info (a method call on the nil interface panics),
\* driver.Clean; cb.driver is assigned only when all three succeed
BenchInit ==
    /\ ~crashed
    /\ pcMain = "new"
    /\ \E ctorFails, infoFails, cleanFails \in BOOLEAN :
          LET n == New(StringToType(cfgType), ctorFails) IN
          IF n.err
          THEN pcMain' = "init_error" /\ UNCHANGED <<driver, crashed>>
          ELSE IF n.drv = Nil
          THEN crashed' = TRUE /\ UNCHANGED <<pcMain, driver>>
          ELSE IF infoFails \/ cleanFails
          THEN pcMain' = "init_error" /\ UNCHANGED <<driver, crashed>>
          ELSE pcMain' = "initialized" /\ driver' = n.drv /\ UNCHANGED crashed
    /\ UNCHANGED <<cfgVars, state, stats, runErr, wg, lastClean, threadVars,
                   criVars, overheadVars, genVars, extVars>>

(* --------------------------- CustomBench.Run --------------------------- *)
\* lines 83-93: the channels, state = Running, one goroutine per thread
RunStart ==
    /\ ~crashed
    /\ pcMain = (IF benchType = "Custom" THEN "initialized" ELSE "sampling")
    /\ state' = "Running"
    /\ wg' = wg + threads
    /\ chan' = [t \in ThreadIds |-> <<>>]
    /\ closed' = [t \in ThreadIds |-> FALSE]
    /\ pc' = [t \in ThreadIds |-> IF t < threads THEN "loop" ELSE "idle"]
    /\ iter' = [t \in ThreadIds |-> 0]
    /\ pcMain' = "wait"
    /\ UNCHANGED <<cfgVars, driver, stats, runErr, lastClean, cmdIdx, ctr, errors,
                   durations, calls, crashed, criVars, overheadVars, genVars, extVars>>

\* Run entered again on a bench whose Run has returned: lines 83-93 make new
\* channels, set the state to Running and start the workers; cb.stats is kept
RunAgain ==
    /\ ~crashed
    /\ benchType = "Custom"
    /\ pcMain = "returned"
    /\ runCalls < MaxRuns
    /\ runCalls' = runCalls + 1
    /\ state' = "Running"
    /\ wg' = wg + threads
    /\ chan' = [t \in ThreadIds |-> <<>>]
    /\ closed' = [t \in ThreadIds |-> FALSE]
    /\ pc' = [t \in ThreadIds |-> IF t < threads THEN "loop" ELSE "idle"]
    /\ iter' = [t \in ThreadIds |-> 0]
    /\ cmdIdx' = [t \in ThreadIds |-> 1]
    /\ ctr' = [t \in ThreadIds |-> NilHandle]
    /\ errors' = [t \in ThreadIds |-> EmptyMap]
    /\ durations' = [t \in ThreadIds |-> EmptyMap]
    /\ pcMain' = "wait"
    /\ UNCHANGED <<cfgVars, driver, stats, runErr, lastClean, calls, crashed,
                   criVars, overheadVars, genVars, driverClosed, stopVars, aggVars,
                   procVars, deltaVars, cleanVars, mergeVars, sweepVars>>

\* line 94: cb.wg.Wait() returns
Join ==
    /\ ~crashed
    /\ pcMain = "wait"
    /\ wg = 0
    /\ pcMain' = "collect"
    /\ UNCHANGED <<cfgVars, driver, state, stats, runErr, wg, lastClean,
                   threadVars, crashed, criVars, overheadVars, genVars, extVars>>

RECURSIVE DrainReversed(_, _)
\* the channels drained from the last thread's to the first's
DrainReversed(chans, t) ==
    IF t >= threads THEN <<>> ELSE DrainReversed(chans, t + 1) \o chans[t]

RECURSIVE Drain(_, _)
\* lines 99-103: the channels in thread order, each drained to its close
Drain(chans, t) ==
    IF t >= threads THEN <<>> ELSE chans[t] \o Drain(chans, t + 1)

\* lines 99-104: range over a channel ends only when it is closed
Collect ==
    /\ ~crashed
    /\ pcMain = "collect"
    /\ \A t \in ThreadIds : t < threads => closed[t]
    /\ stats' = stats \o Drain(chan, 0)
    /\ chan' = [t \in ThreadIds |-> <<>>]
    /\ state' = "Completed"
    /\ pcMain' = "clean"
    /\ UNCHANGED <<cfgVars, driver, runErr, wg, lastClean, pc, iter, cmdIdx, ctr, errors,
                   durations, closed, calls, crashed, criVars, overheadVars,
                   genVars, extVars>>

\* Run failing as soon as a worker recorded an error
RunResultWorkerErrors(cleanFails, collected) ==
    IF cleanFails \/ (\E i \in 1 .. Len(collected) : DOMAIN collected[i].Errors # {})
    THEN "Error during driver final cleanup"
    ELSE Nil

\* the value Run returns after the final driver.Clean (lines 106-109)
RunResult(cleanFails, collected) ==
    IF cleanFails THEN "Error during driver final cleanup" ELSE Nil

\* a final Clean issued while Run is still waiting for its workers
FinalCleanBeforeJoin ==
    /\ ~crashed
    /\ pcMain \in {"wait", "clean"}
    /\ \E cleanFails \in BOOLEAN :
          /\ lastClean' = IF cleanFails THEN "failed" ELSE "ok"
          /\ runErr' = RunResult(cleanFails, stats)
    /\ pcMain' = IF benchType = "Custom" THEN "returned" ELSE "run_returned"
    /\ UNCHANGED <<cfgVars, driver, state, stats, wg, threadVars, crashed,
                   criVars, overheadVars, genVars, extVars>>

\* lines 106-109: the final driver.Clean and the return
FinalClean ==
    /\ ~crashed
    /\ pcMain = "clean"
    /\ \E cleanFails \in BOOLEAN :
          /\ lastClean' = IF cleanFails THEN "failed" ELSE "ok"
          /\ runErr' = RunResult(cleanFails, stats)
    /\ pcMain' = IF benchType = "Custom" THEN "returned" ELSE "run_returned"
    /\ UNCHANGED <<cfgVars, driver, state, stats, wg, threadVars, crashed,
                   criVars, overheadVars, genVars, extVars>>

\* Stats with the state test inverted
StatsInverted == IF state # "Completed" THEN stats ELSE <<>>

\* CustomBench.Stats
Stats == IF state = "Completed" THEN stats ELSE <<>>

(* ------------------------- CustomBench.runThread ----------------------- *)
\* the elapsed time recorded, the error not counted
RecordDropsError(t, cmd, r) ==
    /\ errors' = errors
    /\ durations' = [durations EXCEPT ![t] = MapSet(@, cmd, r.elapsed)]

\* the error and the elapsed time recorded under the lower-cased token
RecordLowerCased(t, cmd, r) ==
    /\ errors' = [errors EXCEPT ![t] = IF r.err THEN MapInc(@, ToLower(cmd)) ELSE @]
    /\ durations' = [durations EXCEPT ![t] = MapSet(@, ToLower(cmd), r.elapsed)]

\* lines 129-132 (and the four cases after it): count the error under the
\* token, record the elapsed time under the token
Record(t, cmd, r) ==
    /\ errors' = [errors EXCEPT ![t] = IF r.err THEN MapInc(@, cmd) ELSE @]
    /\ durations' = [durations EXCEPT ![t] = MapSet(@, cmd, r.elapsed)]

\* lines 113-122: fresh maps, the container name, driver.Create. Docker,
\* containerd and CRI return a nil handle with the error when the image cannot
\* be listed or pulled. The CRI driver then copies pconfigGlobal (a struct whose
\* Metadata field is a pointer) and stores the pod name through that pointer.
ThreadCreate(t) ==
    /\ ~crashed
    /\ pc[t] = "loop"
    /\ iter[t] < iterations
    /\ LET name == FmtName(t, iter[t])
           fail == "Create" \in failOps
       IN /\ calls' = [calls EXCEPT ![t] = <<Call("Create", "", fail, fail)>>]
          /\ errors' = [errors EXCEPT ![t] = EmptyMap]
          /\ durations' = [durations EXCEPT ![t] = EmptyMap]
          /\ cmdIdx' = [cmdIdx EXCEPT ![t] = 1]
          /\ sent' = [sent EXCEPT ![t] = NoRequest]
          /\ IF fail
             THEN /\ ctr' = [ctr EXCEPT ![t] = NilHandle]
                  /\ pc' = [pc EXCEPT ![t] = "cmd"]
                  /\ UNCHANGED pconfigName
             ELSE IF driver = "CRI"
             THEN /\ pconfigName' = PodName(name)
                  /\ pc' = [pc EXCEPT ![t] = "cri_sandbox"]
                  /\ UNCHANGED ctr
             ELSE /\ ctr' = [ctr EXCEPT ![t] = Handle(name, "")]
                  /\ pc' = [pc EXCEPT ![t] = "cmd"]
                  /\ UNCHANGED pconfigName
    /\ UNCHANGED <<cfgVars, benchVars, iter, chan, closed, crashed, cconfigName,
                   overheadVars, genVars, extVars>>

\* CRIDriver.Create lines 425-438: the RunPodSandbox request is built from the
\* metadata object as it is now; the handle carries the returned sandbox id
CRIRunPodSandbox(t) ==
    /\ ~crashed
    /\ pc[t] = "cri_sandbox"
    /\ sent' = [sent EXCEPT ![t] = Request(pconfigName, "")]
    /\ ctr' = [ctr EXCEPT ![t] = Handle(FmtName(t, iter[t]), pconfigName)]
    /\ pc' = [pc EXCEPT ![t] = "cmd"]
    /\ UNCHANGED <<cfgVars, benchVars, iter, cmdIdx, errors, durations, chan,
                   closed, calls, crashed, pconfigName, cconfigName,
                   overheadVars, genVars, extVars>>

\* lines 124-164: one command token. An unrecognized token is skipped. A
\* method called on the nil handle panics. CRIDriver.Run (lines 470-474) first
\* stores the names through the shared metadata pointers.
ThreadCommand(t) ==
    /\ ~crashed
    /\ pc[t] = "cmd"
    /\ cmdIdx[t] <= Len(commands)
    /\ LET cmd == commands[cmdIdx[t]]
           op == Dispatch(cmd)
           fail == op \in failOps /\ CallsBackend(driver, op, ctr[t])
           r == DriverOp(driver, op, ctr[t], fail)
       IN IF op = "none"
          THEN /\ cmdIdx' = [cmdIdx EXCEPT ![t] = @ + 1]
               /\ UNCHANGED <<pc, errors, durations, calls, crashed,
                              pconfigName, cconfigName>>
          ELSE IF r.panic
          THEN /\ crashed' = TRUE
               /\ calls' = [calls EXCEPT ![t] = Append(@, Call(op, cmd, FALSE, FALSE))]
               /\ UNCHANGED <<pc, cmdIdx, errors, durations, pconfigName,
                              cconfigName>>
          ELSE IF driver = "CRI" /\ op = "Run"
          THEN /\ cconfigName' = ctr[t].name
               /\ pconfigName' = PodName(ctr[t].name)
               /\ pc' = [pc EXCEPT ![t] = "cri_ctr"]
               /\ UNCHANGED <<cmdIdx, errors, durations, calls, crashed>>
          ELSE /\ Record(t, cmd, r)
               /\ calls' = [calls EXCEPT ![t] = Append(@, Call(op, cmd, fail, r.err))]
               /\ cmdIdx' = [cmdIdx EXCEPT ![t] = @ + 1]
               /\ UNCHANGED <<pc, crashed, pconfigName, cconfigName>>
    /\ UNCHANGED <<cfgVars, benchVars, iter, ctr, chan, closed, sent,
                   overheadVars, genVars, extVars>>

\* CRIDriver.Run lines 476-481: the CreateContainer request is built from the
\* two metadata objects as they are now
CRICreateContainer(t) ==
    /\ ~crashed
    /\ pc[t] = "cri_ctr"
    /\ LET cmd == commands[cmdIdx[t]]
           fail == "Run" \in failOps
           r == CRIDriverOp("Run", ctr[t], fail)
       IN /\ sent' = [sent EXCEPT ![t] = Request(pconfigName, cconfigName)]
          /\ Record(t, cmd, r)
          /\ calls' = [calls EXCEPT ![t] = Append(@, Call("Run", cmd, fail, r.err))]
    /\ cmdIdx' = [cmdIdx EXCEPT ![t] = @ + 1]
    /\ pc' = [pc EXCEPT ![t] = "cmd"]
    /\ UNCHANGED <<cfgVars, benchVars, iter, ctr, chan, closed, crashed,
                   pconfigName, cconfigName, overheadVars, genVars, extVars>>

\* a worker that appends its record to the bench's stats slice itself
ThreadEmitAppends(t) ==
    /\ ~crashed
    /\ pc[t] = "cmd"
    /\ cmdIdx[t] > Len(commands)
    /\ stats' = Append(stats, RunStatistics(durations[t], errors[t]))
    /\ iter' = [iter EXCEPT ![t] = @ + 1]
    /\ pc' = [pc EXCEPT ![t] = "loop"]
    /\ UNCHANGED <<cfgVars, pcMain, driver, state, runErr, wg, lastClean, cmdIdx, ctr,
                   errors, durations, chan, closed, calls, crashed, criVars,
                   overheadVars, genVars, extVars>>

\* lines 165-168: the iteration's record goes to the thread's own channel,
\* whose capacity is the iteration count
ThreadEmit(t) ==
    /\ ~crashed
    /\ pc[t] = "cmd"
    /\ cmdIdx[t] > Len(commands)
    /\ Len(chan[t]) < iterations
    /\ chan' = [chan EXCEPT ![t] = Append(@, RunStatistics(durations[t], errors[t]))]
    /\ iter' = [iter EXCEPT ![t] = @ + 1]
    /\ pc' = [pc EXCEPT ![t] = "loop"]
    /\ UNCHANGED <<cfgVars, benchVars, cmdIdx, ctr, errors, durations, closed,
                   calls, crashed, criVars, overheadVars, genVars, extVars>>

\* a worker that closes its channel and returns without cb.wg.Done()
ThreadExitNoDone(t) ==
    /\ ~crashed
    /\ pc[t] = "loop"
    /\ iter[t] >= iterations
    /\ closed' = [closed EXCEPT ![t] = TRUE]
    /\ pc' = [pc EXCEPT ![t] = "done"]
    /\ UNCHANGED <<cfgVars, benchVars, iter, cmdIdx, ctr, errors, durations, chan,
                   calls, crashed, criVars, overheadVars, genVars, extVars>>

\* lines 170-171: close(stats), cb.wg.Done()
ThreadExit(t) ==
    /\ ~crashed
    /\ pc[t] = "loop"
    /\ iter[t] >= iterations
    /\ closed' = [closed EXCEPT ![t] = TRUE]
    /\ wg' = wg - 1
    /\ pc' = [pc EXCEPT ![t] = "done"]
    /\ UNCHANGED <<cfgVars, pcMain, driver, state, stats, runErr, lastClean, iter, cmdIdx,
                   ctr, errors, durations, chan, calls, crashed, criVars,
                   overheadVars, genVars, extVars>>

(* --------------------------- OverheadBench.Run ------------------------ *)
bytesInMiB == 1024 * 1024
\* resident set size and CPU percent a successful query of the daemon reports
DaemonRSS == 3 * bytesInMiB
DaemonCPU == 5

\* a PID method that always finds a daemon
DriverPIDAlwaysFound(drv, lookupFails) == Nil

\* driver.PID: the Docker pid file or the containerd process may be missing;
\* the CRI driver has no daemon pid
DriverPID(drv, lookupFails) ==
    IF drv = "CRI" THEN "not implemented"
    ELSE IF lookupFails THEN "pid lookup failed"
    ELSE Nil

\* lines 21-59: driver.PID, utils.NewProcFromPID, then the ticker and the
\* sampling goroutine
OverheadStart ==
    /\ ~crashed
    /\ pcMain = "initialized"
    /\ benchType = "Overhead"
    /\ \E lookupFails, procFails \in BOOLEAN :
          LET e == DriverPID(driver, lookupFails) IN
          IF e # Nil
          THEN /\ runErr' = e
               /\ pcMain' = "returned"
               /\ UNCHANGED <<tickerOn, pcSampler>>
          ELSE IF procFails
          THEN /\ runErr' = "could not get proc info"
               /\ pcMain' = "returned"
               /\ UNCHANGED <<tickerOn, pcSampler>>
          ELSE /\ tickerOn' = TRUE
               /\ pcSampler' = "waiting"
               /\ pcMain' = "sampling"
               /\ UNCHANGED runErr
    /\ UNCHANGED <<cfgVars, driver, state, stats, wg, lastClean, threadVars, crashed,
                   criVars, tickPending, clock, metrics, queries, genVars, extVars>>

\* time.Ticker: a running ticker puts a tick into ticker.C, a channel of
\* capacity one, every procMetricsSampleInterval
Tick ==
    /\ ~crashed
    /\ tickerOn
    /\ ~tickPending
    /\ clock < MaxTicks
    /\ tickPending' = TRUE
    /\ clock' = clock + 1
    /\ UNCHANGED <<cfgVars, benchVars, threadVars, crashed, criVars, tickerOn,
                   pcSampler, metrics, queries, genVars, extVars>>

\* line 39: for range ticker.C receives the buffered tick
SamplerReceive ==
    /\ ~crashed
    /\ pcSampler = "waiting"
    /\ tickPending
    /\ tickPending' = FALSE
    /\ pcSampler' = "query"
    /\ UNCHANGED <<cfgVars, benchVars, threadVars, crashed, criVars, tickerOn,
                   clock, metrics, queries, genVars, extVars>>

\* the record of one sample (lines 51-54)
Sample(now, memErr, cpuErr) ==
    [Durations |-> EmptyMap, Errors |-> EmptyMap, Timestamp |-> now,
     Daemon |-> [present |-> TRUE,
                 Mem |-> (IF memErr THEN 0 ELSE DaemonRSS) \div bytesInMiB,
                 CPU |-> IF cpuErr THEN 0 ELSE DaemonCPU]]

\* the condition of line 50
SampleKept(memErr, cpuErr) == ~memErr \/ ~cpuErr

\* lines 40-57: daemonProc.Mem, daemonProc.CPU, the append to metrics
SamplerQuery ==
    /\ ~crashed
    /\ pcSampler = "query"
    /\ \E memErr, cpuErr \in BOOLEAN :
          /\ metrics' = IF SampleKept(memErr, cpuErr)
                        THEN Append(metrics, Sample(clock, memErr, cpuErr))
                        ELSE metrics
          /\ queries' = Append(queries, [memErr |-> memErr, cpuErr |-> cpuErr,
                                          kept |-> SampleKept(memErr, cpuErr)])
    /\ pcSampler' = "waiting"
    /\ UNCHANGED <<cfgVars, benchVars, threadVars, crashed, criVars, tickerOn,
                   tickPending, clock, genVars, extVars>>

\* a Run that returns the wrapped error at once, with the ticker running and
\* nothing merged, and stops the ticker only after a successful wrapped run
TickerStopOnSuccess ==
    /\ ~crashed
    /\ pcMain = "run_returned"
    /\ IF runErr = Nil
       THEN tickerOn' = FALSE /\ pcMain' = "merge"
       ELSE pcMain' = "returned" /\ UNCHANGED tickerOn
    /\ UNCHANGED <<cfgVars, driver, state, stats, runErr, wg, lastClean, threadVars,
                   crashed, criVars, tickPending, clock, pcSampler, metrics,
                   queries, genVars, extVars>>

\* line 64: ticker.Stop() stops further ticks; it neither closes nor drains
\* ticker.C and does not wait for the goroutine
TickerStop ==
    /\ ~crashed
    /\ pcMain = "run_returned"
    /\ tickerOn' = FALSE
    /\ pcMain' = "merge"
    /\ UNCHANGED <<cfgVars, driver, state, stats, runErr, wg, lastClean, threadVars,
                   crashed, criVars, tickPending, clock, pcSampler, metrics,
                   queries, genVars, extVars>>

RemoveAt(s, i) == SubSeq(s, 1, i - 1) \o SubSeq(s, i + 1, Len(s))

RECURSIVE SortedOrders(_)
\* sort.Slice by Timestamp.Before: any order of the elements with
\* non-decreasing timestamps (sort.Slice is not a stable sort)
SortedOrders(s) ==
    IF s = <<>> THEN {<<>>}
    ELSE LET least == {i \in 1 .. Len(s) :
                          \A j \in 1 .. Len(s) : s[i].Timestamp <= s[j].Timestamp}
             firsts == {i \in least : \A j \in least : s[j] = s[i] => i <= j}
         IN UNION {{<<s[i]>> \o rest : rest \in SortedOrders(RemoveAt(s, i))} :
                      i \in firsts}

\* lines 66-71: the samples read so far are appended to the stats, the whole
\* sequence is sorted, and the wrapped run's error is returned
Merge ==
    /\ ~crashed
    /\ pcMain = "merge"
    /\ stats' \in SortedOrders(stats \o metrics)
    /\ pcMain' = "returned"
    /\ UNCHANGED <<cfgVars, driver, state, runErr, wg, lastClean, threadVars, crashed,
                   criVars, overheadVars, genVars, extVars>>

(* --------------------------- aggregator (cmd/root.go) ------------------ *)
\* time.Millisecond in nanoseconds
Millisecond == 1000000

\* the records the aggregator is fed: operational records whose durations are
\* in nanoseconds, and resource samples
DurationKeySets == {{}, {"run"}, {"run", "stop"}}
DurationMaps == UNION {[ks -> {1500000, 2000000}] : ks \in DurationKeySets}
ErrorMaps == {EmptyMap, [run |-> 1]}
OperationalRecords == {RunStatistics(d, e) : d \in DurationMaps, e \in ErrorMaps}
SampleRecords ==
    {Sample(now, memErr, cpuErr) :
        now \in 1 .. 2, memErr \in BOOLEAN, cpuErr \in {FALSE}}
StatisticsInputs ==
    UNION {[1 .. n -> OperationalRecords \cup SampleRecords] : n \in 0 .. MaxRecords}

\* a float64 held exactly, as a fraction
Rat(n, d) == [num |-> n, den |-> d]

RECURSIVE intSum(_)
\* intSum
intSum(slice) == IF slice = <<>> THEN 0 ELSE Head(slice) + intSum(Tail(slice))

\* stats.Min, stats.Max, stats.Mean, stats.Median, stats.StandardDeviation of a
\* non-empty input; on an empty input each returns an error
StatsMin(in) == CHOOSE x \in {in[i] : i \in DOMAIN in} : \A i \in DOMAIN in : x <= in[i]
StatsMax(in) == CHOOSE x \in {in[i] : i \in DOMAIN in} : \A i \in DOMAIN in : x >= in[i]
StatsMean(in) == Rat(intSum(in), Len(in))
StatsMedian(in) ==
    LET c == SortSeq(in, LAMBDA a, b : a < b)
        n == Len(c)
    IN IF n % 2 = 1 THEN Rat(c[(n + 1) \div 2], 1)
       ELSE Rat(c[n \div 2] + c[n \div 2 + 1], 2)
\* the population variance, whose square root StandardDeviation returns
StatsVariance(in) ==
    LET n == Len(in)
    IN Rat(n * intSum([i \in DOMAIN in |-> in[i] * in[i]]) - intSum(in) * intSum(in),
           n * n)

\* filterStats that keeps every record
filterStatsKeepAll(stats_, wantDaemon) == stats_

\* filterStats with its two check functions: stat.Daemon != nil (wantDaemon)
\* and stat.Daemon == nil
filterStats(stats_, wantDaemon) ==
    SelectSeq(stats_, LAMBDA stat : stat.Daemon.present = wantDaemon)

\* the values appended to durationSeq[key] (milliseconds) and errorSeq[key]
durationSeq(ops, key) ==
    LET has == SelectSeq(ops, LAMBDA stat : key \in DOMAIN stat.Durations)
    IN [i \in 1 .. Len(has) |-> has[i].Durations[key] \div Millisecond]
errorSeq(ops, key) ==
    LET has == SelectSeq(ops, LAMBDA stat : key \in DOMAIN stat.Errors)
    IN [i \in 1 .. Len(has) |-> has[i].Errors[key]]

\* parseStats: statistics[0] of the filtered slice is read unconditionally, an
\* index out of range when no operational record is left
parseStats(stats_) ==
    LET ops == filterStats(stats_, FALSE)
    IN IF Len(ops) = 0
       THEN [done |-> TRUE, panic |-> TRUE, result |-> EmptyMap]
       ELSE [done |-> TRUE, panic |-> FALSE,
             result |->
                [key \in DOMAIN ops[1].Durations |->
                    LET d == durationSeq(ops, key) IN
                    [min |-> StatsMin(d), max |-> StatsMax(d), avg |-> StatsMean(d),
                     median |-> StatsMedian(d), variance |-> StatsVariance(d),
                     errors |-> intSum(errorSeq(ops, key))]]]

\* parseMetrics: the six statistics of the samples' Mem and CPU; every
\* statistic reports an error and is left at its error value when no sample is
\* left; the memory statistics are converted to uint64
parseMetrics(metrics_) ==
    LET samples == filterStats(metrics_, TRUE)
        mems == [i \in 1 .. Len(samples) |-> samples[i].Daemon.Mem]
        cpus == [i \in 1 .. Len(samples) |-> samples[i].Daemon.CPU]
    IN IF Len(samples) = 0
       THEN [done |-> TRUE, empty |-> TRUE]
       ELSE [done |-> TRUE, empty |-> FALSE,
             minMem |-> StatsMin(mems), maxMem |-> StatsMax(mems),
             avgMem |-> intSum(mems) \div Len(mems),
             minCPU |-> StatsMin(cpus), maxCPU |-> StatsMax(cpus),
             avgCPU |-> StatsMean(cpus)]

\* the aggregator is handed any sequence of records
InitAgg ==
    /\ benchType = "Custom"
    /\ cfgType = "Docker"
    /\ commands = <<"run", "pause", "unpause", "stop", "remove">>
    /\ threads = 1
    /\ iterations = 0
    /\ failOps = {}
    /\ BenchCreated
    /\ NoGen
    /\ NoProc
    /\ NoDelta
    /\ NoClean
    /\ NoMerge
    /\ NoSweep
    /\ NoStop
    /\ statistics \in StatisticsInputs
    /\ cmdTimings = [done |-> FALSE, panic |-> FALSE, result |-> EmptyMap]
    /\ metricsResults = [done |-> FALSE]

\* outputRunDetails line 331: cmdTimings := parseStats(...); a panic ends the
\* process
ParseStats ==
    /\ ~crashed
    /\ ~cmdTimings.done
    /\ cmdTimings' = parseStats(statistics)
    /\ crashed' = cmdTimings'.panic
    /\ UNCHANGED <<cfgVars, benchVars, threadVars, criVars, overheadVars, genVars,
                   driverClosed, runCalls, stopVars, statistics, metricsResults, procVars, deltaVars,
                   cleanVars, mergeVars, sweepVars>>

\* outputRunDetails line 370: parseMetrics(...)
ParseMetrics ==
    /\ ~crashed
    /\ ~metricsResults.done
    /\ metricsResults' = parseMetrics(statistics)
    /\ UNCHANGED <<cfgVars, benchVars, threadVars, crashed, criVars, overheadVars,
                   genVars, driverClosed, runCalls, stopVars, statistics, cmdTimings, procVars,
                   deltaVars, cleanVars, mergeVars, sweepVars>>

(* --------------------------- process sampler (utils) ------------------- *)
\* the process ids of the tree; 1 is the daemon, the root
Pids == 1 .. MaxProcs
\* the set of names handed to NewProcFromPID
procNames == {"dockerd", "containerd"}
\* the names a process of the tree may have
ProcessNames == {"Dockerd", "sh"}
\* what happens to a process during one walk: it stays ("live"), it has exited
\* before its name is read ("gone"), it exits between the name lookup and the
\* metric query ("gone_query"), or its metric query fails otherwise ("denied")
Fates == {"live", "gone", "gone_query", "denied"}
\* every tree on Pids in which a parent has a smaller pid than its child
ParentMaps == {f \in [Pids \ {1} -> Pids] : \A c \in Pids \ {1} : f[c] < c}

\* resident set size and CPU percent of a process, distinct powers so that a
\* total identifies the processes that contributed
RSS(pid) == 2 ^ (pid - 1) * bytesInMiB
Percent(pid) == 2 ^ (pid - 1)

\* strings.EqualFold against the names of procNames
EqualFold(a, b) ==
    LET fold(x) == IF x = "Dockerd" THEN "dockerd" ELSE x IN fold(a) = fold(b)

\* the whitelist loop of walkProcessTree
Listed(name) == \E procName_ \in procNames : EqualFold(name, procName_)

RECURSIVE SeqOfSet(_)
\* root.Children(): the children listed, in pid order
SeqOfSet(S) ==
    IF S = {} THEN <<>>
    ELSE LET m == CHOOSE x \in S : \A y \in S : x <= y IN <<m>> \o SeqOfSet(S \ {m})
Children(pid) ==
    SeqOfSet({c \in Pids \ {1} : procParent[c] = pid})

RECURSIVE walkNoList(_, _)
\* walkProcessTree without the whitelist test
walkNoList(root, metric) ==
    IF procFate[root] \in {"gone", "gone_query"} THEN [total |-> 0, err |-> FALSE]
    ELSE IF procFate[root] = "denied" THEN [total |-> 0, err |-> TRUE]
    ELSE LET kids == Children(root)
             step[i \in 0 .. Len(kids)] ==
                 IF i = 0 THEN [total |-> metric[root], err |-> FALSE]
                 ELSE IF step[i - 1].err THEN step[i - 1]
                 ELSE LET r == walkNoList(kids[i], metric)
                      IN [total |-> step[i - 1].total + r.total, err |-> r.err]
         IN step[Len(kids)]

RECURSIVE walkStrict(_, _)
\* walkProcessTree returning the not-exist error of a vanished process
walkStrict(root, metric) ==
    IF procFate[root] = "gone" THEN [total |-> 0, err |-> TRUE]
    ELSE IF ~Listed(procName[root]) THEN [total |-> 0, err |-> FALSE]
    ELSE IF procFate[root] \in {"gone_query", "denied"} THEN [total |-> 0, err |-> TRUE]
    ELSE LET kids == Children(root)
             step[i \in 0 .. Len(kids)] ==
                 IF i = 0 THEN [total |-> metric[root], err |-> FALSE]
                 ELSE IF step[i - 1].err THEN step[i - 1]
                 ELSE LET r == walkStrict(kids[i], metric)
                      IN [total |-> step[i - 1].total + r.total, err |-> r.err]
         IN step[Len(kids)]

RECURSIVE walkProcessTree(_, _)
\* Proc.walkProcessTree with the callback of Mem or of CPU, which adds
\* metric[pid] to the total: a vanished process and a process whose name is not
\* listed end the walk of their subtree without error; another query error
\* ends the whole walk; the children are walked in order until one fails
walkProcessTree(root, metric) ==
    IF procFate[root] = "gone" THEN [total |-> 0, err |-> FALSE]
    ELSE IF ~Listed(procName[root]) THEN [total |-> 0, err |-> FALSE]
    ELSE IF procFate[root] = "gone_query" THEN [total |-> 0, err |-> FALSE]
    ELSE IF procFate[root] = "denied" THEN [total |-> 0, err |-> TRUE]
    ELSE LET kids == Children(root)
             step[i \in 0 .. Len(kids)] ==
                 IF i = 0 THEN [total |-> metric[root], err |-> FALSE]
                 ELSE IF step[i - 1].err THEN step[i - 1]
                 ELSE LET r == walkProcessTree(kids[i], metric)
                      IN [total |-> step[i - 1].total + r.total, err |-> r.err]
         IN step[Len(kids)]

\* a daemon process tree of any shape, names and fates
InitProc ==
    /\ benchType = "Overhead"
    /\ cfgType = "Docker"
    /\ commands = <<"run", "pause", "unpause", "stop", "remove">>
    /\ threads = 1
    /\ iterations = 0
    /\ failOps = {}
    /\ BenchCreated
    /\ NoGen
    /\ NoAgg
    /\ NoDelta
    /\ NoClean
    /\ NoMerge
    /\ NoSweep
    /\ NoStop
    /\ procParent \in ParentMaps
    /\ procName \in [Pids -> ProcessNames]
    /\ procFate \in [Pids -> Fates]
    /\ memResult = [done |-> FALSE, total |-> 0, err |-> FALSE]
    /\ cpuResult = [done |-> FALSE, total |-> 0, err |-> FALSE]

\* Proc.Mem
ProcMem ==
    /\ ~memResult.done
    /\ LET r == walkProcessTree(1, [pid \in Pids |-> RSS(pid)])
       IN memResult' = [done |-> TRUE, total |-> r.total, err |-> r.err]
    /\ UNCHANGED <<cfgVars, benchVars, threadVars, crashed, criVars, overheadVars,
                   genVars, driverClosed, runCalls, stopVars, aggVars, procParent, procName, procFate,
                   cpuResult, deltaVars, cleanVars, mergeVars, sweepVars>>

\* Proc.CPU
ProcCPU ==
    /\ ~cpuResult.done
    /\ LET r == walkProcessTree(1, [pid \in Pids |-> Percent(pid)])
       IN cpuResult' = [done |-> TRUE, total |-> r.total, err |-> r.err]
    /\ UNCHANGED <<cfgVars, benchVars, threadVars, crashed, criVars, overheadVars,
                   genVars, driverClosed, runCalls, stopVars, aggVars, procParent, procName, procFate,
                   memResult, deltaVars, cleanVars, mergeVars, sweepVars>>

(* --------------------------- overhead comparison ----------------------- *)
RECURSIVE GCD(_, _)
GCD(a, b) == IF b = 0 THEN a ELSE GCD(b, a % b)

\* a float64 result: a finite value held as a fraction in lowest terms,
\* positive infinity, or NaN
Finite(n, d) == LET g == GCD(n, d) IN [kind |-> "finite", num |-> n \div g, den |-> d \div g]
PosInf == [kind |-> "inf", num |-> 0, den |-> 0]
NaN == [kind |-> "nan", num |-> 0, den |-> 0]

\* the float64 division after / before of non-negative operands
FloatDiv(after, before) ==
    IF before # 0 THEN Finite(after, before)
    ELSE IF after = 0 THEN NaN
    ELSE PosInf

\* the bare division
getDeltaDivides(before, after) == FloatDiv(after, before)

\* getDelta
getDelta(before, after) ==
    IF before # 0 THEN FloatDiv(after, before)
    ELSE IF after = 0 THEN Finite(1, 1)
    ELSE PosInf

\* 100*getDelta(...) - 100 in float64
MemPercent(d) ==
    IF d.kind = "finite"
    THEN [kind |-> "finite", num |-> (100 * d.num - 100 * d.den) \div d.den,
          rem |-> (100 * d.num - 100 * d.den) % d.den, den |-> d.den]
    ELSE [kind |-> d.kind, num |-> 0, rem |-> 0, den |-> 0]

\* two averages to compare
InitDelta ==
    /\ benchType = "Overhead"
    /\ cfgType = "Docker"
    /\ commands = <<"run", "pause", "unpause", "stop", "remove">>
    /\ threads = 1
    /\ iterations = 0
    /\ failOps = {}
    /\ BenchCreated
    /\ NoGen
    /\ NoAgg
    /\ NoProc
    /\ NoClean
    /\ NoMerge
    /\ NoSweep
    /\ NoStop
    /\ avgBefore \in 0 .. MaxAvg
    /\ avgAfter \in 0 .. MaxAvg
    /\ overhead = [done |-> FALSE]

\* outputRunDetails lines 389-390
OutputOverhead ==
    /\ ~overhead.done
    /\ overhead' = [done |-> TRUE,
                    mem |-> MemPercent(getDelta(avgBefore, avgAfter)),
                    cpu |-> getDelta(avgBefore, avgAfter)]
    /\ UNCHANGED <<cfgVars, benchVars, threadVars, crashed, criVars, overheadVars,
                   genVars, driverClosed, runCalls, stopVars, aggVars, procVars, avgBefore, avgAfter,
                   cleanVars, mergeVars, sweepVars>>

(* --------------------------- driver.Clean ------------------------------ *)
\* container names, as sequences of characters
ContainerNamePrefix == <<"b", "b", "-", "c", "t", "r">>
BenchName == ContainerNamePrefix \o <<"-", "0", "-", "0">>
WebbName == <<"w", "e", "b", "b", "-", "1">>
RedisName == <<"r", "e", "d", "i", "s">>
\* the name of the container Validate creates
ValidateName == <<"b", "b", "-", "t", "e", "s", "t">>
ContainerNames == {BenchName, ValidateName, WebbName, RedisName}
ContainerStates == {"absent", "running", "paused", "stopped"}
CleanDrivers == {"DockerCLI", "Docker", "Runc", "Containerd", "Ctr", "CRI"}

\* strings.Contains
Contains(str, substr) ==
    \E i \in 1 .. (Len(str) - Len(substr) + 1) :
       SubSeq(str, i, i + Len(substr) - 1) = substr

\* the containers of the backend
Present(b) == {name \in DOMAIN b : b[name] # "absent"}

\* parseRuncList: the listed containers whose id contains "bb-"
parseRuncList(b) == {name \in Present(b) : Contains(name, <<"b", "b", "-">>)}

\* parseContainerdList: every listed container
parseContainerdList(b) == Present(b)

\* the containers each driver's Clean stops and removes: the Docker drivers
\* list with the filter name=bb-ctr, which the daemon matches against any part
\* of the name; runc takes what parseRuncList keeps; the ctr, containerd and
\* CRI drivers take every container their backend lists
CleanTargets(drv, b) ==
    CASE drv \in {"Docker", "DockerCLI"} ->
            {name \in Present(b) : Contains(name, ContainerNamePrefix)}
      [] drv = "Runc" -> parseRuncList(b)
      [] drv = "Ctr" -> parseContainerdList(b)
      [] drv \in {"Containerd", "CRI"} -> Present(b)

\* a backend with any containers, about to be cleaned by any driver
InitClean ==
    /\ benchType = "Custom"
    /\ cfgType = "Docker"
    /\ commands = <<"run", "pause", "unpause", "stop", "remove">>
    /\ threads = 1
    /\ iterations = 0
    /\ failOps = {}
    /\ BenchCreated
    /\ NoGen
    /\ NoAgg
    /\ NoProc
    /\ NoDelta
    /\ NoMerge
    /\ NoSweep
    /\ NoStop
    /\ cleanDriver \in CleanDrivers
    /\ backendBefore \in [ContainerNames -> ContainerStates]
    /\ backend = backendBefore
    /\ cleanResult = [done |-> FALSE, err |-> FALSE]

\* Driver.Clean: the list call may fail; each targeted container is removed
\* unless its stop or remove fails; only the list failure, and for the Docker
\* API driver a failed removal, is returned as an error
DriverClean ==
    /\ ~cleanResult.done
    /\ \E listFails \in BOOLEAN, removed \in SUBSET CleanTargets(cleanDriver, backend) :
          IF listFails /\ cleanDriver # "DockerCLI"
          THEN /\ cleanResult' = [done |-> TRUE, err |-> TRUE]
               /\ UNCHANGED backend
          ELSE /\ backend' = [name \in DOMAIN backend |->
                                 IF name \in removed THEN "absent" ELSE backend[name]]
               /\ cleanResult' =
                     [done |-> TRUE,
                      err |-> (cleanDriver = "Docker"
                               /\ removed # CleanTargets(cleanDriver, backend))]
    /\ UNCHANGED <<cfgVars, benchVars, threadVars, crashed, criVars, overheadVars,
                   genVars, driverClosed, runCalls, stopVars, aggVars, procVars, deltaVars, cleanDriver,
                   backendBefore, mergeVars, sweepVars>>

(* ------------------- stopTask (containerd API driver) ------------------ *)
\* the operations of ContainerdDriver that call stopTask
StopCallers == {"Stop", "Remove", "Clean"}
\* the status of a container's task before the call; "none" is a container
\* without a task
TaskStatuses == {"none", "created", "running", "paused", "stopped"}

\* a container of the containerd metadata whose task is in some status, and
\* a driver operation that is about to call stopTask on it
InitStop ==
    /\ benchType = "Custom"
    /\ cfgType = "Containerd"
    /\ commands = <<"run", "pause", "unpause", "stop", "remove">>
    /\ threads = 1
    /\ iterations = 0
    /\ failOps = {}
    /\ BenchCreated
    /\ NoGen
    /\ NoAgg
    /\ NoProc
    /\ NoDelta
    /\ NoClean
    /\ NoMerge
    /\ NoSweep
    /\ stopCaller \in StopCallers
    /\ waitInGoroutine \in BOOLEAN
    /\ taskBefore \in TaskStatuses
    /\ taskStatus = taskBefore
    /\ ctrPresent = TRUE
    /\ pcStop = "task"
    /\ pcWaiter = "off"
    /\ statusC = FALSE
    /\ taskLog = <<>>
    /\ stopErr = "pending"
    /\ callErr = "pending"

\* what every stopTask step leaves alone
StopFrame ==
    UNCHANGED <<cfgVars, benchVars, threadVars, crashed, criVars, overheadVars,
                genVars, driverClosed, runCalls, aggVars, procVars, deltaVars,
                cleanVars, mergeVars, sweepVars, stopCaller, waitInGoroutine,
                taskBefore>>

\* ctr.Task: no task is "nothing to do" and nil; another error is returned
StopTaskLoad ==
    /\ pcStop = "task"
    /\ \E loadFails \in BOOLEAN :
          IF taskStatus = "none"
          THEN pcStop' = "returned" /\ stopErr' = "nil"
          ELSE IF loadFails
          THEN pcStop' = "returned" /\ stopErr' = "err"
          ELSE pcStop' = "status" /\ UNCHANGED stopErr
    /\ UNCHANGED <<taskStatus, ctrPresent, pcWaiter, statusC, taskLog, callErr>>
    /\ StopFrame

\* task.Status and the switch on it: the error of Status is not looked at, a
\* failed call leaves the zero status, which no case matches
StopTaskStatus ==
    /\ pcStop = "status"
    /\ \E statusFails \in BOOLEAN :
          LET status == IF statusFails THEN "unknown" ELSE taskStatus
          IN CASE status = "stopped" ->
                    pcStop' = "delete" /\ UNCHANGED <<pcWaiter, stopErr>>
               [] status = "running" ->
                    IF waitInGoroutine
                    THEN pcStop' = "kill" /\ pcWaiter' = "spawned" /\ UNCHANGED stopErr
                    ELSE pcStop' = "wait" /\ UNCHANGED <<pcWaiter, stopErr>>
               [] status = "paused" ->
                    pcStop' = "returned" /\ stopErr' = "err" /\ UNCHANGED pcWaiter
               [] OTHER ->
                    pcStop' = "returned" /\ stopErr' = "nil" /\ UNCHANGED pcWaiter
    /\ UNCHANGED <<taskStatus, ctrPresent, statusC, taskLog, callErr>>
    /\ StopFrame

\* part_006 lines 443-446: task.Wait called inline; its error is only logged
StopTaskWait ==
    /\ pcStop = "wait"
    /\ \E waitFails \in BOOLEAN :
          IF waitFails
          THEN UNCHANGED <<pcWaiter, taskLog>>
          ELSE pcWaiter' = "registered" /\ taskLog' = Append(taskLog, "Wait")
    /\ pcStop' = "kill"
    /\ UNCHANGED <<taskStatus, ctrPresent, statusC, stopErr, callErr>>
    /\ StopFrame

\* driver/containerd.go lines 348-354: the goroutine calls task.Wait
WaiterRegister ==
    /\ pcWaiter = "spawned"
    /\ pcWaiter' = "registered"
    /\ taskLog' = Append(taskLog, "Wait")
    /\ UNCHANGED <<taskStatus, ctrPresent, pcStop, statusC, stopErr, callErr>>
    /\ StopFrame

\* the wait ends when the task has exited: the exit status goes to statusC
WaiterDeliver ==
    /\ pcWaiter = "registered"
    /\ taskStatus \in {"stopped", "none"}
    /\ pcWaiter' = "delivered"
    /\ statusC' = TRUE
    /\ UNCHANGED <<taskStatus, ctrPresent, pcStop, taskLog, stopErr, callErr>>
    /\ StopFrame

\* task.Kill(SIGKILL): on an error the task is deleted, whatever that call
\* achieves, and the error returned
StopTaskKill ==
    /\ pcStop = "kill"
    /\ \E killFails \in BOOLEAN, deleted \in BOOLEAN :
          IF killFails
          THEN /\ taskLog' = taskLog \o <<"Kill", "Delete">>
               /\ taskStatus' = IF deleted THEN "none" ELSE taskStatus
               /\ pcStop' = "returned"
               /\ stopErr' = "err"
          ELSE /\ taskLog' = Append(taskLog, "Kill")
               /\ taskStatus' = "killed"
               /\ pcStop' = "recv"
               /\ UNCHANGED stopErr
    /\ UNCHANGED <<ctrPresent, pcWaiter, statusC, callErr>>
    /\ StopFrame

\* the killed process exits
TaskExit ==
    /\ taskStatus = "killed"
    /\ taskStatus' = "stopped"
    /\ UNCHANGED <<ctrPresent, pcStop, pcWaiter, statusC, taskLog, stopErr, callErr>>
    /\ StopFrame

\* status := <-statusC
StopTaskReceive ==
    /\ pcStop = "recv"
    /\ statusC
    /\ statusC' = FALSE
    /\ taskLog' = Append(taskLog, "Exit")
    /\ pcStop' = "delete"
    /\ UNCHANGED <<taskStatus, ctrPresent, pcWaiter, stopErr, callErr>>
    /\ StopFrame

\* task.Delete of the Stopped and Running cases
StopTaskDelete ==
    /\ pcStop = "delete"
    /\ taskLog' = Append(taskLog, "Delete")
    /\ \E deleteFails \in BOOLEAN :
          IF deleteFails
          THEN stopErr' = "err" /\ UNCHANGED taskStatus
          ELSE stopErr' = "nil" /\ taskStatus' = "none"
    /\ pcStop' = "returned"
    /\ UNCHANGED <<ctrPresent, pcWaiter, statusC, callErr>>
    /\ StopFrame

\* the caller after stopTask. Stop returns its error. Remove returns it
\* before container.Delete; Clean logs it and calls container.Delete anyway.
\* container.Delete of the containerd client refuses a container that still
\* has a task.
StopCallerReturn ==
    /\ pcStop = "returned"
    /\ pcStop' = "done"
    /\ \E deleteFails \in BOOLEAN :
          LET ok == ~deleteFails /\ taskStatus = "none"
          IN CASE stopCaller = "Stop" ->
                    callErr' = stopErr /\ UNCHANGED ctrPresent
               [] stopCaller = "Remove" ->
                    IF stopErr = "err"
                    THEN callErr' = "err" /\ UNCHANGED ctrPresent
                    ELSE /\ ctrPresent' = ~ok
                         /\ callErr' = IF ok THEN "nil" ELSE "err"
               [] stopCaller = "Clean" ->
                    ctrPresent' = ~ok /\ callErr' = "nil"
    /\ UNCHANGED <<taskStatus, pcWaiter, statusC, taskLog, stopErr>>
    /\ StopFrame

NextStop ==
    \/ StopTaskLoad
    \/ StopTaskStatus
    \/ StopTaskWait
    \/ WaiterRegister
    \/ WaiterDeliver
    \/ StopTaskKill
    \/ TaskExit
    \/ StopTaskReceive
    \/ StopTaskDelete
    \/ StopCallerReturn

SpecStop == InitStop /\ [][NextStop]_vars

(* --------------------------- merge (overhead.go) ----------------------- *)
\* the records of a wrapped run: no timestamp, one measured duration each
MergeOperational ==
    {RunStatistics(d, EmptyMap) : d \in [{"run"} -> {1500000, 2000000}]}
\* the samples of the goroutine, in the order of their ticks (a later tick
\* has a later time.Now())
MergeSamples ==
    {Sample(now, memErr, FALSE) : now \in 1 .. MaxTicks, memErr \in BOOLEAN}
MergeStatsInputs == UNION {[1 .. n -> MergeOperational] : n \in 0 .. MaxRecords}
MergeMetricsInputs ==
    {m \in UNION {[1 .. n -> MergeSamples] : n \in 0 .. MaxTicks} :
        \A i \in 1 .. Len(m) - 1 : m[i].Timestamp < m[i + 1].Timestamp}

\* the merge is handed the statistics of a wrapped run and a sample list
InitMerge ==
    /\ benchType = "Overhead"
    /\ cfgType = "Docker"
    /\ commands = <<"run", "pause", "unpause", "stop", "remove">>
    /\ threads = 1
    /\ iterations = 0
    /\ failOps = {}
    /\ BenchCreated
    /\ NoGen
    /\ NoAgg
    /\ NoProc
    /\ NoDelta
    /\ NoClean
    /\ NoSweep
    /\ NoStop
    /\ mergeStats \in MergeStatsInputs
    /\ mergeMetrics \in MergeMetricsInputs
    /\ merged = [done |-> FALSE, out |-> <<>>]

\* lines 66-69: append(ob.CustomBench.stats, metrics...) and sort.Slice
MergeSort ==
    /\ ~merged.done
    /\ \E out \in SortedOrders(mergeStats \o mergeMetrics) :
          merged' = [done |-> TRUE, out |-> out]
    /\ UNCHANGED <<cfgVars, benchVars, threadVars, crashed, criVars, overheadVars,
                   genVars, driverClosed, runCalls, stopVars, aggVars, procVars, deltaVars, cleanVars,
                   mergeStats, mergeMetrics, sweepVars>>

(* --------------------------- runBenchmark (cmd/root.go) ---------------- *)
\* the sweep of runBenchmark: the loop variable i is threads, the argument of
\* the current bench.Run
InitSweep ==
    /\ benchType = "Custom"
    /\ cfgType = "Docker"
    /\ commands \in CommandLists
    /\ threads = 1
    /\ iterations \in 1 .. MaxIter
    /\ failOps \in {{}, {"Stop"}}
    /\ BenchCreated
    /\ NoGen
    /\ NoAgg
    /\ NoProc
    /\ NoDelta
    /\ NoClean
    /\ NoMerge
    /\ NoStop
    /\ sweepMax \in 1 .. MaxThreads
    /\ validated = FALSE
    /\ sweepStats = <<>>
    /\ sweepResult = [done |-> FALSE, err |-> FALSE, statistics |-> <<>>]
    /\ detailRows = [done |-> FALSE, rows |-> <<>>]

\* a sweep that goes on whatever Init and Run returned
StepErrorIgnored(pcm, err) == FALSE

\* lines 262-264 and 270-273: err != nil after bench.Init or bench.Run
StepError(pcm, err) == pcm = "init_error" \/ (pcm = "returned" /\ err # Nil)

\* lines 266-268: bench.Validate on the initialized bench; an error ends the
\* sweep
SweepValidate ==
    /\ ~crashed
    /\ ~sweepResult.done
    /\ pcMain = "initialized"
    /\ ~validated
    /\ \E fails \in BOOLEAN :
          IF fails
          THEN /\ sweepResult' = [done |-> TRUE, err |-> TRUE, statistics |-> <<>>]
               /\ UNCHANGED validated
          ELSE /\ validated' = TRUE
               /\ UNCHANGED sweepResult
    /\ UNCHANGED <<cfgVars, benchVars, threadVars, crashed, criVars, overheadVars,
                   genVars, driverClosed, runCalls, stopVars, aggVars, procVars, deltaVars, cleanVars,
                   mergeVars, sweepMax, sweepStats, detailRows>>

\* line 270: bench.Run(i, ...) on the validated bench
SweepRun == validated /\ ~sweepResult.done /\ RunStart

\* lines 262-264 and 270-287: an error of Init or Run is returned with no
\* result; otherwise stats[i-1] = bench.Stats(), and either the next pass
\* starts with a bench from benches.New and one more thread, or the result
\* is returned
SweepStep ==
    /\ ~crashed
    /\ ~sweepResult.done
    /\ pcMain \in {"init_error", "returned"}
    /\ IF StepError(pcMain, runErr)
       THEN /\ sweepResult' = [done |-> TRUE, err |-> TRUE, statistics |-> <<>>]
            /\ UNCHANGED <<cfgVars, benchVars, threadVars, criVars, overheadVars,
                           driverClosed, runCalls, stopVars, validated, sweepStats>>
       ELSE /\ sweepStats' = Append(sweepStats, Stats)
            /\ IF threads < sweepMax
               THEN /\ threads' = threads + 1
                    /\ pcMain' = "new"
                    /\ driver' = Nil
                    /\ state' = "Created"
                    /\ stats' = <<>>
                    /\ runErr' = Nil
                    /\ wg' = 0
                    /\ lastClean' = "none"
                    /\ pc' = [t \in ThreadIds |-> "idle"]
                    /\ iter' = [t \in ThreadIds |-> 0]
                    /\ cmdIdx' = [t \in ThreadIds |-> 1]
                    /\ ctr' = [t \in ThreadIds |-> NilHandle]
                    /\ errors' = [t \in ThreadIds |-> EmptyMap]
                    /\ durations' = [t \in ThreadIds |-> EmptyMap]
                    /\ chan' = [t \in ThreadIds |-> <<>>]
                    /\ closed' = [t \in ThreadIds |-> FALSE]
                    /\ calls' = [t \in ThreadIds |-> <<>>]
                    /\ validated' = FALSE
                    /\ UNCHANGED <<benchType, cfgType, commands, iterations, failOps,
                                   criVars, overheadVars, driverClosed, runCalls, stopVars, sweepResult>>
               ELSE /\ sweepResult' = [done |-> TRUE, err |-> FALSE,
                                       statistics |-> sweepStats']
                    /\ UNCHANGED <<cfgVars, benchVars, threadVars, criVars,
                                   overheadVars, driverClosed, runCalls, stopVars, validated>>
    /\ UNCHANGED <<crashed, genVars, aggVars, procVars, deltaVars, cleanVars,
                   mergeVars, sweepMax, detailRows>>

\* outputRunDetails line 321: the commands that get a row, in print order
cmdList == <<"run", "pause", "resume", "stop", "delete">>

\* lines 336-340: one row per command of cmdList that is a key of cmdTimings
DetailRows(timings) == SelectSeq(cmdList, LAMBDA cmd : cmd \in DOMAIN timings)

\* outputRunDetails lines 324-343 on the result of runBenchmark: for every
\* thread-count step, parseStats and the rows of its commands; a panic of
\* parseStats ends the process
OutputRunDetails ==
    /\ ~crashed
    /\ sweepResult.done
    /\ ~sweepResult.err
    /\ ~detailRows.done
    /\ LET timings == [i \in 1 .. Len(sweepResult.statistics) |->
                          parseStats(sweepResult.statistics[i])]
       IN IF \E i \in DOMAIN timings : timings[i].panic
          THEN crashed' = TRUE /\ UNCHANGED detailRows
          ELSE /\ detailRows' = [done |-> TRUE,
                                 rows |-> [i \in DOMAIN timings |->
                                             DetailRows(timings[i].result)]]
               /\ UNCHANGED crashed
    /\ UNCHANGED <<cfgVars, benchVars, threadVars, criVars, overheadVars, genVars,
                   driverClosed, runCalls, stopVars, aggVars, procVars, deltaVars, cleanVars, mergeVars,
                   sweepMax, validated, sweepStats, sweepResult>>

(* --------------------------- name generation --------------------------- *)
\* line 118 alone, for any thread and iteration index up to MaxIndex
GenName ==
    /\ \E t \in 0 .. MaxIndex, i \in 0 .. MaxIndex :
          genA' = <<t, i, FmtName(t, i)>>
    /\ genB' = genA
    /\ UNCHANGED <<cfgVars, benchVars, threadVars, crashed, criVars, overheadVars,
                   extVars>>

(* --------------------------- specifications ---------------------------- *)
BenchNext ==
    \/ BenchInit
    \/ RunStart
    \/ Join
    \/ Collect
    \/ FinalClean
    \/ \E t \in ThreadIds : ThreadCreate(t)
    \/ \E t \in ThreadIds : ThreadCommand(t)
    \/ \E t \in ThreadIds : ThreadEmit(t)
    \/ \E t \in ThreadIds : ThreadExit(t)

Next == BenchNext

Spec == Init /\ [][Next]_vars

\* the Go scheduler runs every runnable goroutine: the goroutine that called
\* Run and each worker take their next step when it stays possible
Fairness ==
    /\ WF_vars(RunStart)
    /\ WF_vars(Join)
    /\ WF_vars(Collect)
    /\ WF_vars(FinalClean)
    /\ \A t \in ThreadIds :
          /\ WF_vars(ThreadCreate(t))
          /\ WF_vars(ThreadCommand(t))
          /\ WF_vars(ThreadEmit(t))
          /\ WF_vars(ThreadExit(t))

SpecFair == InitFair /\ [][Next]_vars /\ Fairness

\* a bench whose caller may call Run again after it has returned
NextRerun ==
    \/ BenchNext
    \/ RunAgain

SpecRerun == InitFair /\ [][NextRerun]_vars

NextOrder ==
    \/ Join
    \/ Collect
    \/ FinalClean
    \/ \E t \in ThreadIds : ThreadCreate(t)
    \/ \E t \in ThreadIds : ThreadCommand(t)
    \/ \E t \in ThreadIds : ThreadEmit(t)
    \/ \E t \in ThreadIds : ThreadExit(t)

SpecOrder == InitOrder /\ [][NextOrder]_vars

NextCRI ==
    \/ BenchNext
    \/ \E t \in ThreadIds : CRIRunPodSandbox(t)
    \/ \E t \in ThreadIds : CRICreateContainer(t)

SpecCRI == InitCRI /\ [][NextCRI]_vars

NextOverhead ==
    \/ BenchNext
    \/ OverheadStart
    \/ Tick
    \/ SamplerReceive
    \/ SamplerQuery
    \/ TickerStop
    \/ Merge

SpecOverhead == InitOverhead /\ [][NextOverhead]_vars

\* the overhead run with every goroutine scheduled: the ticker fires while
\* it runs, and the sampling goroutine and Run take their steps
FairnessOverhead ==
    /\ Fairness
    /\ WF_vars(BenchInit)
    /\ WF_vars(OverheadStart)
    /\ WF_vars(Tick)
    /\ WF_vars(SamplerReceive)
    /\ WF_vars(SamplerQuery)
    /\ WF_vars(TickerStop)
    /\ WF_vars(Merge)

SpecOverheadFair == InitOverhead /\ [][NextOverhead]_vars /\ FairnessOverhead

NextAgg == ParseStats \/ ParseMetrics

SpecAgg == InitAgg /\ [][NextAgg]_vars

NextProc == ProcMem \/ ProcCPU

SpecProc == InitProc /\ [][NextProc]_vars

NextDelta == OutputOverhead

SpecDelta == InitDelta /\ [][NextDelta]_vars

NextClean == DriverClean

SpecClean == InitClean /\ [][NextClean]_vars

NextMerge == MergeSort
SpecMerge == InitMerge /\ [][NextMerge]_vars

NextSweep ==
    \/ BenchInit
    \/ SweepValidate
    \/ SweepRun
    \/ Join
    \/ Collect
    \/ FinalClean
    \/ \E t \in ThreadIds : ThreadCreate(t)
    \/ \E t \in ThreadIds : ThreadCommand(t)
    \/ \E t \in ThreadIds : ThreadEmit(t)
    \/ \E t \in ThreadIds : ThreadExit(t)
    \/ SweepStep
    \/ OutputRunDetails

SpecSweep == InitSweep /\ [][NextSweep]_vars

NextNames == GenName

SpecNames == InitNames /\ [][NextNames]_vars

(* ------------------------------ properties ----------------------------- *)
\* the record of the iteration thread t finished last is still in its channel
IterationEmitted(t) ==
    /\ pc[t] \in {"loop", "done"}
    /\ iter[t] > 0
    /\ Len(chan[t]) = iter[t]

LastStat(t) == chan[t][Len(chan[t])]

\* C1: error isolation. When Run has returned there are exactly
\* threads * iterations records and the result is nil if the final Clean
\* succeeded; the record of an iteration counts, under its token, every command
\* whose driver method returned an error; and no failing run, stop, remove,
\* pause or unpause ends the process (only a failed Create can).
ErrorIsolation ==
    /\ pcMain = "returned" =>
          /\ Len(stats) = threads * iterations
          /\ lastClean = "ok" => runErr = Nil
    /\ \A t \in ThreadIds :
          IterationEmitted(t) =>
             \A i \in 2 .. Len(calls[t]) :
                calls[t][i].err =>
                   /\ calls[t][i].tok \in DOMAIN LastStat(t).Errors
                   /\ LastStat(t).Errors[calls[t][i].tok] >= 1
    /\ (crashed /\ pcMain # "new") => "Create" \in failOps

\* two threads of two iterations with a stop that always fails: four records,
\* each counting the failed stop, and a nil result
ErrorIsolationWitness ==
    /\ pcMain = "returned"
    /\ threads = 2
    /\ iterations = 2
    /\ failOps = {"Stop"}
    /\ runErr = Nil
    /\ Len(stats) = 4
    /\ \A i \in 1 .. Len(stats) :
          "stop" \in DOMAIN stats[i].Errors /\ stats[i].Errors["stop"] >= 1

\* C2: state gating. Before Run, and from the start of Run until the channels
\* are collected (workers in flight or just joined), Stats() is empty; once Run
\* has collected, the state is Completed and Stats() is the full sequence of
\* threads * iterations records.
StateGating ==
    /\ pcMain \in {"new", "init_error", "initialized"} =>
          state = "Created" /\ Stats = <<>>
    /\ pcMain \in {"wait", "collect"} =>
          state = "Running" /\ Stats = <<>>
    /\ pcMain \in {"clean", "returned"} =>
          /\ state = "Completed"
          /\ Stats = stats
          /\ Len(Stats) = threads * iterations

\* a worker is in the middle of its second iteration, its first record sits in
\* its channel, and Stats() is empty
StateGatingWitness ==
    /\ pcMain = "wait"
    /\ \E t \in ThreadIds : pc[t] = "cmd" /\ Len(chan[t]) >= 1
    /\ Stats = <<>>

\* the samples held by the bench's statistics
SamplesIn(s) == SelectSeq(s, LAMBDA r : r.Daemon.present)

\* C3: sampler stop happens-before read. Once OverheadBench.Run has merged
\* the sample list and returned, every sample the background task ever
\* appended is in the statistics: no append follows the read.
SamplerStoppedBeforeRead ==
    (benchType = "Overhead" /\ pcMain = "returned") =>
        Len(SamplesIn(stats)) = Len(metrics)

\* C4: container-name uniqueness. Two names generated for different
\* (thread index, iteration index) pairs are different strings.
NamesUnique ==
    (genA # <<>> /\ genB # <<>> /\ (genA[1] # genB[1] \/ genA[2] # genB[2])) =>
        genA[3] # genB[3]

\* thread 11 iteration 1 after thread 1 iteration 11
NamesUniqueWitness ==
    /\ genA = <<11, 1, "bb-ctr-11-1">>
    /\ genB = <<1, 11, "bb-ctr-1-11">>

\* the operation each recognized token of CommandLists stands for
RecognizedOp ==
    [run |-> "Run", Start |-> "Run", pause |-> "Pause", unpause |-> "Unpause",
     resume |-> "Unpause", stop |-> "Stop", kill |-> "Stop", remove |-> "Remove",
     Erase |-> "Remove", delete |-> "Remove"]

\* Create, then the operations of the recognized tokens in list order
ExpectedCalls ==
    LET rec == SelectSeq(commands, LAMBDA c : c \in DOMAIN RecognizedOp)
    IN <<"Create">> \o [i \in 1 .. Len(rec) |-> RecognizedOp[rec[i]]]

ObservedOps(t) == [i \in 1 .. Len(calls[t]) |-> calls[t][i].op]

IterationDone(t) ==
    \/ pc[t] = "cmd" /\ cmdIdx[t] > Len(commands)
    \/ pc[t] \in {"loop", "done"} /\ iter[t] > 0

\* C5: command-order preservation. What the driver has observed of an
\* iteration is always an initial part of: Create, then one call per
\* recognized token in list order; and it is all of it when the iteration ends.
CommandOrder ==
    \A t \in ThreadIds :
       /\ Len(ObservedOps(t)) <= Len(ExpectedCalls)
       /\ ObservedOps(t) = SubSeq(ExpectedCalls, 1, Len(ObservedOps(t)))
       /\ IterationDone(t) => ObservedOps(t) = ExpectedCalls

\* the list of the specification's example, observed in full
CommandOrderWitness ==
    /\ commands = <<"run", "pause", "unpause", "stop", "remove">>
    /\ IterationDone(0)
    /\ ObservedOps(0) = <<"Create", "Run", "Pause", "Unpause", "Stop", "Remove">>

\* C6: final cleanup failure is the run's error. Run returns an error exactly
\* when its final driver.Clean failed.
CleanFailureIsRunError ==
    pcMain = "returned" => (runErr # Nil <=> lastClean = "failed")

\* a run whose workers recorded errors returns nil after a successful Clean
CleanFailureIsRunErrorWitness ==
    /\ pcMain = "returned"
    /\ lastClean = "ok"
    /\ runErr = Nil
    /\ \E i \in 1 .. Len(stats) : DOMAIN stats[i].Errors # {}

\* C7: every failed lifecycle operation is reported. A driver method whose
\* backend call failed returned an error.
FailuresReported ==
    \A t \in ThreadIds :
       \A i \in 1 .. Len(calls[t]) : calls[t][i].failed => calls[t][i].err

\* C8: create failure is tolerated. No goroutine panics in a run whose
\* driver.Create fails.
CreateFailureTolerated ==
    "Create" \in failOps => ~crashed

\* C9: per-iteration state is never shared between workers. Every CRI request
\* of a worker carries the names derived from that worker's own container name.
RequestsCarryOwnName ==
    \A t \in ThreadIds :
       (sent[t].made /\ ~ctr[t].isNil) =>
          /\ sent[t].pod = PodName(ctr[t].name)
          /\ sent[t].ctr \in {"", ctr[t].name}

\* C10: unrecognized backend identifiers are rejected. A type string that
\* StringToType does not list ends Init with a configuration error.
UnrecognizedRejected ==
    (StringToType(cfgType) = "Null" /\ (pcMain # "new" \/ crashed)) =>
        (pcMain = "init_error" /\ ~crashed)

\* the operational records of a sequence
OperationalIn(s) == SelectSeq(s, LAMBDA r : ~r.Daemon.present)

\* C11: statistics on empty data degrade instead of crashing. parseStats on a
\* sequence without any operational record returns an empty result and does
\* not panic.
EmptyStatisticsDegrade ==
    (cmdTimings.done /\ OperationalIn(statistics) = <<>>) =>
        (~cmdTimings.panic /\ cmdTimings.result = EmptyMap /\ ~crashed)

\* C12: partition invariant of the aggregator. On any mixed sequence
\* parseStats gives what it gives on the operational records alone, and
\* parseMetrics what it gives on the resource samples alone.
AggregatorPartition ==
    /\ cmdTimings.done => cmdTimings = parseStats(OperationalIn(statistics))
    /\ metricsResults.done => metricsResults = parseMetrics(SamplesIn(statistics))

\* a sample followed by an operational record: both functions have run, and the
\* command statistics are those of the one operational record
AggregatorPartitionWitness ==
    /\ Len(statistics) = 2
    /\ statistics[1].Daemon.present
    /\ ~statistics[2].Daemon.present
    /\ DOMAIN statistics[2].Durations = {"run", "stop"}
    /\ cmdTimings.done
    /\ ~cmdTimings.panic
    /\ DOMAIN cmdTimings.result = {"run", "stop"}
    /\ metricsResults.done
    /\ ~metricsResults.empty

\* C13: adapter release. When a bench's Init or Run has returned, every driver
\* that driver.New handed to it has been closed.
DriverReleased ==
    (pcMain = "returned" /\ driver # Nil) => driverClosed

\* C14: Completed is reached only after the whole run. Whenever the state is
\* Completed, all workers are joined and the final Clean has been attempted.
CompletedAfterFinalClean ==
    state = "Completed" => (wg = 0 /\ lastClean # "none")

\* C15: a sample query failure skips the tick. A sample is appended only for a
\* query whose memory read and CPU read both succeeded, and the loop goes on.
FailedQuerySkipsTick ==
    \A i \in 1 .. Len(queries) :
       queries[i].kept <=> (~queries[i].memErr /\ ~queries[i].cpuErr)

RECURSIVE PathFromRoot(_)
\* the processes from the daemon down to a process, both included
PathFromRoot(pid) == IF pid = 1 THEN {1} ELSE {pid} \cup PathFromRoot(procParent[pid])

RECURSIVE SumOver(_, _)
SumOver(S, metric) ==
    IF S = {} THEN 0
    ELSE LET x == CHOOSE y \in S : TRUE IN metric[x] + SumOver(S \ {x}, metric)

\* the live processes whose name is in the recognized set
MatchingLive == {pid \in Pids : procName[pid] = "Dockerd" /\ procFate[pid] = "live"}
\* those of them that hang below the daemon through such processes only
Counted == {pid \in MatchingLive : PathFromRoot(pid) \subseteq MatchingLive}

OverheadRatioRule ==
    overhead.done =>
        /\ avgBefore # 0 =>
              /\ overhead.cpu.kind = "finite"
              /\ overhead.cpu.num * avgBefore = avgAfter * overhead.cpu.den
        /\ (avgBefore = 0 /\ avgAfter = 0) =>
              (overhead.cpu.kind = "finite" /\ overhead.cpu.num = overhead.cpu.den)
        /\ (avgBefore = 0 /\ avgAfter # 0) => overhead.cpu.kind = "inf"
        /\ (avgBefore = 10 /\ avgAfter = 20) =>
              /\ overhead.cpu = [kind |-> "finite", num |-> 2, den |-> 1]
              /\ overhead.mem = [kind |-> "finite", num |-> 100, rem |-> 0, den |-> 1]

\* both averages zero: the printed multiplier is 1 and the percent is 0
OverheadRatioRuleWitness ==
    /\ overhead.done
    /\ avgBefore = 0
    /\ avgAfter = 0
    /\ overhead.cpu = [kind |-> "finite", num |-> 1, den |-> 1]
    /\ overhead.mem.kind = "finite"
    /\ overhead.mem.num = 0

\* the recognized tokens of the command list, as written
RecognizedTokens == {commands[i] : i \in 1 .. Len(commands)} \cap DOMAIN RecognizedOp

\* C20: statistics are keyed by the original token. Every token is dispatched
\* to the operation of its alias group whatever its case, and the record of an
\* iteration holds a duration under each recognized token exactly as written
\* and its errors under the same keys.
KeyedByOriginalToken ==
    \A t \in ThreadIds :
       /\ \A i \in 2 .. Len(calls[t]) :
             calls[t][i].op = RecognizedOp[calls[t][i].tok]
       /\ IterationEmitted(t) =>
             /\ DOMAIN LastStat(t).Durations = RecognizedTokens
             /\ DOMAIN LastStat(t).Errors \subseteq RecognizedTokens
             /\ \A i \in 2 .. Len(calls[t]) :
                   calls[t][i].err => calls[t][i].tok \in DOMAIN LastStat(t).Errors

\* the list [Start, bogus, kill] with a failing run: the record has durations
\* under "Start" and "kill" and the error under "Start"
KeyedByOriginalTokenWitness ==
    /\ commands = <<"Start", "bogus", "kill">>
    /\ IterationEmitted(0)
    /\ DOMAIN LastStat(0).Durations = {"Start", "kill"}
    /\ DOMAIN LastStat(0).Errors = {"Start"}

\* strings.HasPrefix, for the statement of C16
HasPrefix(str, prefix) ==
    Len(str) >= Len(prefix) /\ SubSeq(str, 1, Len(prefix)) = prefix

\* C16: Clean touches only benchmark containers. After Clean, every container
\* whose name does not start with the reserved prefix is as it was before.
CleanTouchesOnlyBenchmark ==
    cleanResult.done =>
        \A name \in ContainerNames :
           ~HasPrefix(name, ContainerNamePrefix) => backend[name] = backendBefore[name]

\* the tokens of the command list no case of the switch matches
UnrecognizedTokens == {commands[i] : i \in 1 .. Len(commands)} \ DOMAIN RecognizedOp

\* C21: unrecognized tokens are skipped. No driver call is made for such a
\* token and it never gets an entry in the duration or error map; the
\* recognized tokens after it are still called, and the iteration's record
\* is emitted with their durations.
UnrecognizedSkipped ==
    \A t \in ThreadIds :
       /\ \A i \in 1 .. Len(calls[t]) : calls[t][i].tok \notin UnrecognizedTokens
       /\ (DOMAIN durations[t] \cup DOMAIN errors[t]) \cap UnrecognizedTokens = {}
       /\ IterationEmitted(t) =>
             /\ Len(calls[t]) = 1 + Cardinality(RecognizedTokens)
             /\ (DOMAIN LastStat(t).Durations \cup DOMAIN LastStat(t).Errors)
                   \cap UnrecognizedTokens = {}
             /\ RecognizedTokens \subseteq DOMAIN LastStat(t).Durations

\* the list [Start, bogus, kill] without failures: run and stop were both
\* called around the skipped token and the record is in the channel
UnrecognizedSkippedWitness ==
    /\ "bogus" \in UnrecognizedTokens
    /\ IterationEmitted(0)
    /\ ObservedOps(0) = <<"Create", "Run", "Stop">>
    /\ DOMAIN LastStat(0).Errors = {}
    /\ state = "Running"

\* C22: no synthetic zeros. An iteration in which a command's driver method
\* returned an error contributes no value to the sequence parseStats
\* aggregates for that command's key.
NoSyntheticZeros ==
    \A t \in ThreadIds :
       IterationEmitted(t) =>
          \A i \in 2 .. Len(calls[t]) :
             calls[t][i].err => durationSeq(<<LastStat(t)>>, calls[t][i].tok) = <<>>

\* every key of the duration map of some operational record of the input
AllDurationKeys ==
    UNION {DOMAIN OperationalIn(statistics)[i].Durations :
              i \in 1 .. Len(OperationalIn(statistics))}

MsUnder(key) ==
    LET has == SelectSeq(OperationalIn(statistics),
                         LAMBDA stat : key \in DOMAIN stat.Durations)
    IN [i \in 1 .. Len(has) |-> has[i].Durations[key] \div 1000000]
ErrorsUnder(key) ==
    LET has == SelectSeq(OperationalIn(statistics),
                         LAMBDA stat : key \in DOMAIN stat.Errors)
    IN [i \in 1 .. Len(has) |-> has[i].Errors[key]]

StableMerge ==
    merged.done =>
        /\ Len(merged.out) = Len(mergeStats) + Len(mergeMetrics)
        /\ \A i \in 1 .. Len(merged.out) - 1 :
              merged.out[i].Timestamp <= merged.out[i + 1].Timestamp
        /\ OperationalIn(merged.out) = mergeStats
        /\ SamplesIn(merged.out) = mergeMetrics

\* the errors with which OverheadBench.Run returns before it starts anything
StartErrors == {"not implemented", "pid lookup failed", "could not get proc info"}

\* C26: an overhead run on a backend without a daemon fails cleanly. On a
\* driver whose PID reports an error Run can only return that error, and
\* whenever Run returned the PID or process-handle error no sampler and no
\* worker was started, the state is still Created, Stats() is empty and no
\* lifecycle operation was invoked.
OverheadFailsCleanly ==
    /\ (benchType = "Overhead" /\ driver = "CRI") =>
          /\ pcMain \in {"initialized", "returned"}
          /\ pcMain = "returned" => runErr = "not implemented"
    /\ (benchType = "Overhead" /\ pcMain = "returned" /\ runErr \in StartErrors) =>
          /\ state = "Created"
          /\ Stats = <<>>
          /\ stats = <<>>
          /\ ~tickerOn /\ ~tickPending /\ clock = 0
          /\ pcSampler = "off" /\ metrics = <<>> /\ queries = <<>>
          /\ wg = 0
          /\ lastClean = "none"
          /\ \A t \in ThreadIds :
                pc[t] = "idle" /\ calls[t] = <<>> /\ chan[t] = <<>> /\ iter[t] = 0

\* the CRI driver has no daemon pid: Run has returned "not implemented"
OverheadFailsCleanlyWitness ==
    /\ benchType = "Overhead"
    /\ driver = "CRI"
    /\ pcMain = "returned"
    /\ runErr = "not implemented"
    /\ state = "Created"

\* C27: sequential thread-count sweep. The runs completed so far are runs
\* 1, 2, ... in that order, run k with k threads; the bench of pass k + 1
\* exists only when run k has returned and is fresh when its Init is due; Run
\* starts only on an initialized and validated bench; an error of Init,
\* Validate or Run ends the sweep at that pass with an error and no result;
\* and a result holds the statistics of all n runs.
SequentialSweep ==
    /\ threads \in 1 .. sweepMax
    /\ Len(sweepStats) =
          (IF sweepResult.done /\ ~sweepResult.err THEN sweepMax ELSE threads - 1)
    /\ \A k \in 1 .. Len(sweepStats) : Len(sweepStats[k]) = k * iterations
    /\ \A t \in ThreadIds : pc[t] # "idle" => t < threads
    /\ pcMain = "new" =>
          /\ state = "Created" /\ stats = <<>> /\ driver = Nil /\ ~validated
          /\ \A t \in ThreadIds : pc[t] = "idle" /\ calls[t] = <<>> /\ chan[t] = <<>>
    /\ state = "Running" => validated
    /\ (sweepResult.done /\ sweepResult.err) =>
          /\ sweepResult.statistics = <<>>
          /\ \/ pcMain = "init_error"
             \/ pcMain = "initialized" /\ ~validated
             \/ pcMain = "returned" /\ runErr # Nil
    /\ (sweepResult.done /\ ~sweepResult.err) =>
          /\ sweepResult.statistics = sweepStats
          /\ threads = sweepMax
          /\ pcMain = "returned" /\ runErr = Nil

\* a sweep of at least two runs has returned its result: the second run
\* contributed the records of two threads
SequentialSweepWitness ==
    /\ sweepResult.done
    /\ ~sweepResult.err
    /\ sweepMax >= 2
    /\ Len(sweepResult.statistics) = sweepMax
    /\ Len(sweepResult.statistics[2]) = 2 * iterations

\* the workers of the run whose channel is still open
OpenWorkers == {t \in ThreadIds : t < threads /\ ~closed[t]}

\* channel capacity is respected, a worker at its send finds room, a closed
\* channel got exactly `iterations` records, and the wait group counts the
\* workers that have not yet closed their channel
FanSafety ==
    /\ \A t \in ThreadIds :
          /\ Len(chan[t]) <= iterations
          /\ (pc[t] = "cmd" /\ cmdIdx[t] > Len(commands)) => Len(chan[t]) < iterations
          /\ closed[t] => pc[t] = "done" /\ iter[t] = iterations
          /\ (closed[t] /\ pcMain \in {"wait", "collect"}) => Len(chan[t]) = iterations
          /\ pc[t] = "done" => closed[t]
    /\ pcMain \in {"wait", "collect"} => wg = Cardinality(OpenWorkers)
    /\ pcMain = "collect" => OpenWorkers = {}
    /\ pcMain = "returned" => Len(stats) = threads * iterations

\* C28: fan-out/fan-in terminates. Every worker sends exactly `iterations`
\* records on its own channel without ever blocking, closes it once and only
\* then signals the wait group; and, unless a driver call panics instead of
\* returning, a started Run eventually returns.
FanOutFanInTerminates ==
    /\ []FanSafety
    /\ (pcMain = "wait") ~> (pcMain = "returned" \/ crashed)

\* Run has returned after two workers each sent and closed
FanOutFanInWitness ==
    /\ pcMain = "returned"
    /\ threads = 2
    /\ iterations >= 1
    /\ closed[0] /\ closed[1]
    /\ wg = 0
    /\ Len(stats) = 2 * iterations

\* C29: single writer of the shared stats. The bench's stats slice changes
\* only in a step of the goroutine that called Run, taken after wg.Wait
\* returned, when the wait group is at zero and every worker has closed its
\* channel and finished; no step of a worker changes it.
SingleWriter ==
    [][stats' # stats =>
          /\ pcMain = "collect"
          /\ pcMain' = "clean"
          /\ wg = 0
          /\ \A t \in ThreadIds : t < threads => pc[t] = "done" /\ closed[t]
          /\ UNCHANGED <<pc, iter, closed, calls>>]_vars

\* the records of two workers have been collected into stats
SingleWriterWitness ==
    /\ pcMain = "clean"
    /\ threads = 2
    /\ stats # <<>>
    /\ pc[0] = "done" /\ pc[1] = "done"
    /\ wg = 0

\* C30: per-thread iteration order. A worker runs its iterations in index
\* order and sends each iteration's record behind those it sent before, and
\* Stats() holds the records grouped by thread in increasing thread index,
\* each thread's records in iteration order.
IterationOrder ==
    [][/\ \A t \in ThreadIds :
             /\ iter'[t] \in {iter[t], iter[t] + 1}
             /\ chan'[t] # chan[t] =>
                   \/ pcMain = "collect" /\ chan'[t] = <<>>
                   \/ /\ Len(chan'[t]) = Len(chan[t]) + 1
                      /\ SubSeq(chan'[t], 1, Len(chan[t])) = chan[t]
                      /\ iter'[t] = iter[t] + 1
                      /\ Len(chan'[t]) = iter'[t]
                      /\ ctr[t].name = FmtName(t, iter[t])
       /\ stats' # stats =>
             /\ state' = "Completed"
             /\ Len(stats') = threads * iterations
             /\ \A t \in ThreadIds : \A j \in 1 .. iterations :
                   t < threads => stats'[t * iterations + j] = chan[t][j]]_vars

\* two threads and two iterations: Stats() holds thread 0's two records, the
\* measured one first, before thread 1's, which differ from thread 0's
IterationOrderWitness ==
    /\ state = "Completed"
    /\ threads = 2
    /\ iterations = 2
    /\ Len(Stats) = 4
    /\ Stats[1].Durations["Start"] = 2
    /\ Stats[2].Durations["Start"] = 1
    /\ Stats[3].Durations["Start"] = 3
    /\ Stats[4].Durations["Start"] = 1

\* C31: the final Clean runs once, after the join. Within one Run the
\* driver's Clean is invoked only when none was invoked before, only after
\* wg.Wait returned with every worker past its last driver operation, and no
\* worker takes a step in the same moment; Run returns only with that one
\* Clean done.
FinalCleanOnceAfterJoin ==
    [][/\ lastClean' # lastClean =>
             /\ lastClean = "none"
             /\ pcMain = "clean"
             /\ wg = 0
             /\ \A t \in ThreadIds : t < threads => pc[t] = "done"
             /\ UNCHANGED <<pc, calls>>
       /\ (pcMain # "returned" /\ pcMain' = "returned") =>
             lastClean = "none" /\ lastClean' # "none"
       /\ (lastClean # "none") => UNCHANGED <<pc, calls, lastClean>>]_vars

\* Run has returned after two workers finished and the one final Clean
FinalCleanOnceAfterJoinWitness ==
    /\ pcMain = "returned"
    /\ lastClean = "ok"
    /\ threads = 2
    /\ iterations >= 1
    /\ pc[0] = "done" /\ pc[1] = "done"
    /\ Len(calls[1]) > 1

\* what the wrapped CustomBench.Run returned, by the outcome of its final Clean
WrappedResult == IF lastClean = "failed" THEN "Error during driver final cleanup" ELSE Nil

\* C32: the sampler is stopped on both outcomes and the wrapped error is
\* passed through. Whatever the wrapped Run returned, the next step of
\* OverheadBench.Run stops the ticker, the one after it puts every sample read
\* from the list into the statistics beside the operational records, and the
\* error returned is the wrapped Run's.
StoppedAndPassedThrough ==
    [][/\ (pcMain = "run_returned" /\ pcMain' # pcMain) =>
             /\ pcMain' = "merge"
             /\ ~tickerOn'
             /\ runErr' = runErr
       /\ (pcMain = "merge" /\ pcMain' # pcMain) =>
             /\ pcMain' = "returned"
             /\ ~tickerOn
             /\ runErr' = runErr
             /\ Len(stats') = Len(stats) + Len(metrics)
             /\ Len(SamplesIn(stats')) = Len(metrics)
             /\ \A i \in 1 .. Len(metrics) :
                   \E j \in 1 .. Len(stats') : stats'[j] = metrics[i]
       /\ (benchType = "Overhead" /\ pcMain' = "returned" /\ lastClean' # "none") =>
             runErr' = WrappedResult']_vars

\* the wrapped run failed in its final Clean: the ticker is stopped, a sample
\* is in the statistics and the wrapped error is what Run returned
StoppedAndPassedThroughWitness ==
    /\ benchType = "Overhead"
    /\ pcMain = "returned"
    /\ lastClean = "failed"
    /\ runErr = "Error during driver final cleanup"
    /\ ~tickerOn
    /\ SamplesIn(stats) # <<>>

\* C33: the sampling task terminates. Once OverheadBench.Run has stopped the
\* ticker, the sampling goroutine eventually is no longer running.
SamplerExits ==
    (benchType = "Overhead" /\ pcMain = "merge") ~> (pcSampler = "off")

\* C34: in an overhead run, Completed implies merged. Whenever State() is
\* Completed, Run has merged and sorted, and Stats() holds every sample of
\* the sample list.
CompletedImpliesMerged ==
    (benchType = "Overhead" /\ state = "Completed") =>
        /\ pcMain = "returned"
        /\ \A i \in 1 .. Len(metrics) : \E j \in 1 .. Len(Stats) : Stats[j] = metrics[i]

\* C35: a successful run leaves no benchmark containers. Whenever Clean
\* returns nil, no container whose name starts with the reserved prefix is
\* left in the backend.
CleanNilLeavesNone ==
    (cleanResult.done /\ ~cleanResult.err) =>
        \A name \in ContainerNames :
           HasPrefix(name, ContainerNamePrefix) => backend[name] = "absent"

\* C36: every name the benchmark creates is covered by cleanup. A container
\* left in the backend under a per-iteration name or under the name Validate
\* uses was among the containers the driver's Clean selected for removal.
CreatedNamesCovered ==
    cleanResult.done =>
        \A name \in {BenchName, ValidateName} :
           backendBefore[name] # "absent" =>
              name \in CleanTargets(cleanDriver, backendBefore)

\* C37: every accepted command is reported. For each token of the command
\* list that runThread accepts, the detailed output holds a row of that
\* command for every thread-count step.
AcceptedCommandsReported ==
    detailRows.done =>
        /\ Len(detailRows.rows) = sweepMax
        /\ \A i \in 1 .. Len(detailRows.rows) :
              \A tok \in RecognizedTokens :
                 \E j \in 1 .. Len(detailRows.rows[i]) : detailRows.rows[i][j] = tok

StateRank(st) == CASE st = "Created" -> 0 [] st = "Running" -> 1 [] st = "Completed" -> 2

\* C38: the bench state never regresses. Over any sequence of Run calls on
\* one bench the state only moves Created -> Running -> Completed; once it is
\* Completed it stays Completed, and Stats, once it has returned records,
\* never returns the empty sequence again.
StateNeverRegresses ==
    [][ /\ StateRank(state') >= StateRank(state)
        /\ StateRank(state') <= StateRank(state) + 1
        /\ (Stats # <<>>) => (Stats' # <<>>) ]_vars

RECURSIVE FirstIndex(_, _, _)
\* the position of the first call of a kind in a call log, 0 when there is none
FirstIndex(log, call, i) ==
    IF i > Len(log) THEN 0
    ELSE IF log[i] = call THEN i ELSE FirstIndex(log, call, i + 1)

\* C39: the containerd stopTask protocol. With no task it makes no call and
\* returns nil; a stopped task is deleted; for a running task the wait is
\* registered before SIGKILL is sent and the task is deleted only after the
\* exit status has been received; for a paused task it returns an error
\* without a kill or a delete, and Remove and Clean leave the container.
StopTaskProtocol ==
    /\ (taskBefore = "none" /\ pcStop \in {"returned", "done"}) =>
           (taskLog = <<>> /\ stopErr = "nil")
    /\ (taskBefore = "stopped" /\ pcStop \in {"returned", "done"} /\ stopErr = "nil") =>
           (taskLog = <<"Delete">> /\ taskStatus = "none")
    /\ taskBefore = "running" =>
           /\ FirstIndex(taskLog, "Kill", 1) # 0 =>
                 /\ FirstIndex(taskLog, "Wait", 1) # 0
                 /\ FirstIndex(taskLog, "Wait", 1) < FirstIndex(taskLog, "Kill", 1)
           /\ FirstIndex(taskLog, "Delete", 1) # 0 =>
                 /\ FirstIndex(taskLog, "Exit", 1) # 0
                 /\ FirstIndex(taskLog, "Exit", 1) < FirstIndex(taskLog, "Delete", 1)
    /\ (taskBefore = "paused" /\ pcStop \in {"returned", "done"}) =>
           /\ stopErr = "err"
           /\ taskLog = <<>>
           /\ taskStatus = "paused"
           /\ (stopCaller \in {"Remove", "Clean"}) => ctrPresent

====
